---- MODULE Spec2Model ----
(***************************************************************************)
(* Verification model of the edge authentication core and of the database  *)
(* connection proxy.                                                        *)
(*                                                                          *)
(*   SpecMongo  - MongoDurableObject (lib/mongoDurableObject.ts): findOne   *)
(*                calls interleaved with the settling of connect attempts   *)
(*                and of driver queries.                                     *)
(*   SpecVerify - FirebaseAdmin.verifyIdToken (lib/firebase-admin.ts): the  *)
(*                validation pipeline, the key cache, the access-token      *)
(*                cache and the user lookup.                                 *)
(*   SpecGate   - middleware (middleware.ts): the request gate, with the    *)
(*                verifyIdToken and revokeRefreshTokens calls it makes.     *)
(*   SpecKeys   - FirebaseAdmin.#fetchGooglePublicKeys: two lookups of the  *)
(*                key set that may overlap.                                  *)
(*   SpecAdmin  - FirebaseAdmin.setCustomUserClaims: two calls that may     *)
(*                overlap, with the access token they obtain.               *)
(*   SpecUpdate - FirebaseAdmin.updateUser: the request it builds and       *)
(*                sends.                                                     *)
(*                                                                          *)
(* JavaScript runs each piece of code to its next await without             *)
(* interleaving; an action is one such run.                                 *)
(***************************************************************************)
EXTENDS Integers, Sequences, FiniteSets, TLC

(***************************************************************************)
(* Connection proxy: state                                                  *)
(***************************************************************************)
VARIABLES
  dbInstance,      \* this.dbInstance: NoDb (null) or the handle made by an attempt
  connectPromise,  \* this.connectPromise: NoPromise (null) or the attempt's promise
  attemptState,    \* per connect attempt: "unused", "pending", "resolved", "rejected"
  callPc,          \* per findOne call: where the call is suspended
  callWaitsOn,     \* per findOne call: the promise it awaits (NoPromise if none)
  callEpoch,       \* per findOne call: number of attempts settled when it arrived
  callStarted,     \* per findOne call: the attempt it started (NoPromise if none)
  callError,       \* per findOne call: error it propagated ("none" if none)
  callResult,      \* per findOne call: value it returned
  callRaw,         \* per findOne call: rawResult of the driver query
  queryDb          \* per findOne call: dbInstance seen when the query was issued

varsMongo == <<dbInstance, connectPromise, attemptState, callPc, callWaitsOn,
               callEpoch, callStarted, callError, callResult, callRaw, queryDb>>

\* Token verifier state (one verifyIdToken call at a time on one instance).
VARIABLES
  clock,            \* Math.floor(Date.now() / 1000)
  jwkCache,         \* module-level jwkCache (line 128)
  accessTokenCache, \* module-level accessTokenCache (line 136)
  vPc,              \* position of the verifyIdToken call
  vToken,           \* idToken of the call
  vCheckRevoked,    \* checkRevoked of the call
  vNow,             \* now of the call (line 423)
  vCode,            \* code of the FirebaseAuthError thrown ("none" if none)
  vResult,          \* payload returned
  vKeys,            \* publicKeysMap obtained by the call
  vUser,            \* outcome of #getUserRecord in the call
  lookupNow,        \* now of #fetchGooglePublicKeys (line 213)
  exchNow,          \* now of #fetchAccessToken (line 299)
  jwkLookups,       \* calls of #fetchGooglePublicKeys made by the call
  jwkFetches,       \* fetches of GOOGLE_JWK_URL made by the call
  sigVerifies,      \* calls of crypto.subtle.verify made by the call
  tokenExchanges,   \* POSTs to GOOGLE_OAUTH2_TOKEN_URL made by the call
  adminRequests     \* POSTs to the Identity Toolkit API made by the call

varsVerify == <<clock, jwkCache, accessTokenCache, vPc, vToken, vCheckRevoked,
                vNow, vCode, vResult, vKeys, vUser, lookupNow, exchNow,
                jwkLookups, jwkFetches, sigVerifies, tokenExchanges, adminRequests>>

\* Request gate state (one request at a time in one isolate).
VARIABLES
  firebaseAdmin,    \* module-level firebaseAdmin is set (middleware.ts line 11)
  gPc,              \* position of the middleware call
  gReq,             \* req of the call
  gInitError,       \* firebaseAdminInitializationError is set (line 110)
  gDecoded,         \* decodedToken (line 129)
  gError,           \* verificationError (line 130)
  gResp,            \* response returned
  verifyCalls,      \* calls of verifyIdToken made by the request
  revokeCalls,      \* calls of revokeRefreshTokens made by the request
  gRevoke,          \* how the revokeRefreshTokens call settled
  gChain,           \* the client's redirect chain: the gate's verdict at each
                    \* redirect followed so far
  gFollow,          \* the redirect the client is about to follow
  revokedUsers      \* tracked uids whose refresh tokens an accounts:update of
                    \* the gate has revoked

varsGate == <<firebaseAdmin, gPc, gReq, gInitError, gDecoded, gError, gResp,
              verifyCalls, revokeCalls, gRevoke, gChain, gFollow, revokedUsers>>

\* Key lookups: the calls of #fetchGooglePublicKeys in flight on one isolate.
VARIABLES
  kPc,              \* per lookup: "idle", "fetching", "returned", "thrown"
  kNow,             \* per lookup: now of the call (line 213) while it fetches
  kFetches,         \* per lookup: fetches of GOOGLE_JWK_URL it made
  kKeys,            \* per lookup: key ids of the map it returned
  kCode,            \* per lookup: code of the error it threw
  kResp             \* per lookup: the response its fetch received

varsKeys == <<kPc, kNow, kFetches, kKeys, kCode, kResp>>

\* Admin calls: the setCustomUserClaims calls in flight on one isolate.
VARIABLES
  aPc,              \* per call: "idle", "signAssertion", "tokenExchange",
                    \*           "post", "resolved", "thrown"
  aClaims,          \* per call: the claims argument
  aNow,             \* per call: now of #fetchAccessToken (line 299)
  aExchanges,       \* per call: POSTs to GOOGLE_OAUTH2_TOKEN_URL it made
  aPosts,           \* per call: POSTs to accounts:update it made
  aToken,           \* per call: the AccessToken #fetchAccessToken returned
  aCode,            \* per call: code of the error it threw
  aResp,            \* per call: the response its token exchange received
  tokenValidUntil   \* token endpoint: instant at which the token held in
                    \* accessTokenCache stops being honoured

varsAdmin == <<aPc, aClaims, aNow, aExchanges, aPosts, aToken, aCode, aResp,
               tokenValidUntil>>

\* User update: the updateUser call in flight.
VARIABLES
  uPc,              \* "idle", "signAssertion", "tokenExchange", "post",
                    \* "resolved", "thrown"
  uProperties,      \* the properties argument
  uPayload,         \* body of the accounts:update request the call built
  uNow,             \* now of #fetchAccessToken (line 299)
  uExchanges,       \* POSTs to GOOGLE_OAUTH2_TOKEN_URL the call made
  uPosts,           \* POSTs to accounts:update the call made
  uCode             \* code of the error the call threw

varsUpdate == <<uPc, uProperties, uPayload, uNow, uExchanges, uPosts, uCode>>

vars == <<varsMongo, varsVerify, varsGate, varsKeys, varsAdmin, varsUpdate>>

\* Number of findOne calls made on the instance in one behaviour.
MaxCalls == 3

Calls == 1..MaxCalls
\* A call starts at most one connect attempt, so attempts are numbered 1..MaxCalls.
Attempts == 1..MaxCalls

NoDb == 0
NoPromise == 0
NoDoc == [kind |-> "null"]

\* Documents the driver can hand back: _id and one further field, each an
\* ObjectId, a string, or absent.
FieldKinds == {"ObjectId", "string", "absent"}
RawDocs == {[kind |-> "doc", id |-> i, ref |-> r] : i \in FieldKinds, r \in {"ObjectId", "absent"}}

\* Outcomes of one connect attempt: client.connect() rejects (including the
\* server-selection timeout), client.db() throws, or both succeed.
ConnectOutcomes == {"ok", "connect-rejected", "db-threw"}

\* Number of client.connect() invocations so far.
connectCalls == Cardinality({a \in Attempts : attemptState[a] # "unused"})

\* Connect attempts started and not yet settled.
InFlight == {a \in Attempts : attemptState[a] = "pending"}

\* Connect attempts that have settled.
Settled == {a \in Attempts : attemptState[a] \in {"resolved", "rejected"}}

NextAttempt == connectCalls + 1

\* ensureConnected, line 41: already connected.
AlreadyConnected == dbInstance # NoDb

\* ensureConnected, line 46: a connection attempt is in progress.
HasConnectPromise_Never == FALSE
HasConnectPromise == connectPromise # NoPromise

\* StartAttempt without the store into this.connectPromise (line 56).
StartAttempt_NoStore(c) ==
  /\ attemptState' = [attemptState EXCEPT ![NextAttempt] = "pending"]
  /\ connectPromise' = connectPromise
  /\ callStarted' = [callStarted EXCEPT ![c] = NextAttempt]
  /\ callWaitsOn' = [callWaitsOn EXCEPT ![c] = NextAttempt]
  /\ callPc' = [callPc EXCEPT ![c] = "awaitOwn"]

\* ensureConnected, lines 55-70: invoke the async closure, which calls
\* client.connect() and suspends; store its promise; await it.
StartAttempt(c) ==
  /\ attemptState' = [attemptState EXCEPT ![NextAttempt] = "pending"]
  /\ connectPromise' = NextAttempt
  /\ callStarted' = [callStarted EXCEPT ![c] = NextAttempt]
  /\ callWaitsOn' = [callWaitsOn EXCEPT ![c] = NextAttempt]
  /\ callPc' = [callPc EXCEPT ![c] = "awaitOwn"]

\* findOne, lines 81-85, with the synchronous part of ensureConnected.
FindOne(c) ==
  /\ callPc[c] = "idle"
  /\ UNCHANGED <<varsVerify, varsGate, varsKeys, varsAdmin, varsUpdate>>
  /\ callEpoch' = [callEpoch EXCEPT ![c] = Cardinality(Settled)]
  /\ IF AlreadyConnected
       THEN /\ callPc' = [callPc EXCEPT ![c] = "connected"]
            /\ UNCHANGED <<attemptState, connectPromise, callStarted, callWaitsOn>>
       ELSE IF HasConnectPromise
         THEN /\ callPc' = [callPc EXCEPT ![c] = "awaitExisting"]
              /\ callWaitsOn' = [callWaitsOn EXCEPT ![c] = connectPromise]
              /\ UNCHANGED <<attemptState, connectPromise, callStarted>>
         ELSE StartAttempt(c)
  /\ UNCHANGED <<dbInstance, callError, callResult, callRaw, queryDb>>

\* The catch block of the connect closure, lines 61-66: value left in
\* connectPromise.
CatchConnectPromise_Keep == connectPromise
CatchConnectPromise == NoPromise

\* The connect closure resumes after client.connect() settles, lines 58-66.
ConnectSettles(a, outcome) ==
  /\ attemptState[a] = "pending"
  /\ UNCHANGED <<varsVerify, varsGate, varsKeys, varsAdmin, varsUpdate>>
  /\ IF outcome = "ok"
       THEN /\ dbInstance' = a
            /\ attemptState' = [attemptState EXCEPT ![a] = "resolved"]
            /\ UNCHANGED connectPromise
       ELSE /\ dbInstance' = NoDb
            /\ connectPromise' = CatchConnectPromise
            /\ attemptState' = [attemptState EXCEPT ![a] = "rejected"]
  /\ UNCHANGED <<callPc, callWaitsOn, callEpoch, callStarted, callError,
                 callResult, callRaw, queryDb>>

\* ResumeAfterConnect with the rejection of the awaited promise swallowed:
\* ensureConnected returns as after a success.
ResumeAfterConnect_SwallowReject(c) ==
  /\ callPc[c] \in {"awaitOwn", "awaitExisting"}
  /\ UNCHANGED <<varsVerify, varsGate, varsKeys, varsAdmin, varsUpdate>>
  /\ attemptState[callWaitsOn[c]] \in {"resolved", "rejected"}
  /\ IF \/ callPc[c] = "awaitOwn"
        \/ dbInstance # NoDb
        \/ attemptState[callWaitsOn[c]] = "rejected"
       THEN /\ callPc' = [callPc EXCEPT ![c] = "connected"]
            /\ UNCHANGED <<attemptState, connectPromise, callStarted,
                           callWaitsOn, callError>>
       ELSE /\ StartAttempt(c)
            /\ UNCHANGED callError
  /\ UNCHANGED <<dbInstance, callEpoch, callResult, callRaw, queryDb>>

\* ResumeAfterConnect with a waiter that falls through to a new attempt when
\* the promise it awaited is rejected.
ResumeAfterConnect_RetryOnReject(c) ==
  /\ callPc[c] \in {"awaitOwn", "awaitExisting"}
  /\ UNCHANGED <<varsVerify, varsGate, varsKeys, varsAdmin, varsUpdate>>
  /\ attemptState[callWaitsOn[c]] \in {"resolved", "rejected"}
  /\ IF attemptState[callWaitsOn[c]] = "rejected" /\ callPc[c] = "awaitOwn"
       THEN /\ callPc' = [callPc EXCEPT ![c] = "failed"]
            /\ callError' = [callError EXCEPT ![c] = "connect-error"]
            /\ UNCHANGED <<attemptState, connectPromise, callStarted, callWaitsOn>>
       ELSE IF callPc[c] = "awaitOwn" \/ dbInstance # NoDb
         THEN /\ callPc' = [callPc EXCEPT ![c] = "connected"]
              /\ UNCHANGED <<attemptState, connectPromise, callStarted,
                             callWaitsOn, callError>>
         ELSE /\ StartAttempt(c)
              /\ UNCHANGED callError
  /\ UNCHANGED <<dbInstance, callEpoch, callResult, callRaw, queryDb>>

\* ResumeAfterConnect without the re-check of dbInstance at line 50.
ResumeAfterConnect_NoRecheck(c) ==
  /\ callPc[c] \in {"awaitOwn", "awaitExisting"}
  /\ UNCHANGED <<varsVerify, varsGate, varsKeys, varsAdmin, varsUpdate>>
  /\ attemptState[callWaitsOn[c]] \in {"resolved", "rejected"}
  /\ IF attemptState[callWaitsOn[c]] = "rejected"
       THEN /\ callPc' = [callPc EXCEPT ![c] = "failed"]
            /\ callError' = [callError EXCEPT ![c] = "connect-error"]
            /\ UNCHANGED <<attemptState, connectPromise, callStarted, callWaitsOn>>
       ELSE IF callPc[c] = "awaitOwn"
         THEN /\ callPc' = [callPc EXCEPT ![c] = "connected"]
              /\ UNCHANGED <<attemptState, connectPromise, callStarted,
                             callWaitsOn, callError>>
         ELSE /\ StartAttempt(c)
              /\ UNCHANGED callError
  /\ UNCHANGED <<dbInstance, callEpoch, callResult, callRaw, queryDb>>

\* A call suspended in ensureConnected resumes once the promise it awaits
\* has settled (lines 48-52 for a waiter, lines 69-77 for the starter).
\* A rejected promise makes the await throw; findOne logs and rethrows.
ResumeAfterConnect(c) ==
  /\ callPc[c] \in {"awaitOwn", "awaitExisting"}
  /\ UNCHANGED <<varsVerify, varsGate, varsKeys, varsAdmin, varsUpdate>>
  /\ attemptState[callWaitsOn[c]] \in {"resolved", "rejected"}
  /\ IF attemptState[callWaitsOn[c]] = "rejected"
       THEN /\ callPc' = [callPc EXCEPT ![c] = "failed"]
            /\ callError' = [callError EXCEPT ![c] = "connect-error"]
            /\ UNCHANGED <<attemptState, connectPromise, callStarted, callWaitsOn>>
       ELSE IF callPc[c] = "awaitOwn" \/ dbInstance # NoDb
         THEN /\ callPc' = [callPc EXCEPT ![c] = "connected"]
              /\ UNCHANGED <<attemptState, connectPromise, callStarted,
                             callWaitsOn, callError>>
         ELSE /\ StartAttempt(c)
              /\ UNCHANGED callError
  /\ UNCHANGED <<dbInstance, callEpoch, callResult, callRaw, queryDb>>

\* findOne, lines 86-90: after ensureConnected returned.
IssueQuery(c) ==
  /\ callPc[c] = "connected"
  /\ UNCHANGED <<varsVerify, varsGate, varsKeys, varsAdmin, varsUpdate>>
  /\ IF dbInstance = NoDb
       THEN /\ callPc' = [callPc EXCEPT ![c] = "failed"]
            /\ callError' = [callError EXCEPT ![c] = "no-db-instance"]
            /\ UNCHANGED queryDb
       ELSE /\ callPc' = [callPc EXCEPT ![c] = "querying"]
            /\ queryDb' = [queryDb EXCEPT ![c] = dbInstance]
            /\ UNCHANGED callError
  /\ UNCHANGED <<dbInstance, connectPromise, attemptState, callWaitsOn,
                 callEpoch, callStarted, callResult, callRaw>>

\* findOne, lines 99-104: shallow copy with _id converted when it is an ObjectId.
Serialize(raw) ==
  IF raw.kind = "null" THEN raw
  ELSE [raw EXCEPT !.id = IF raw.id = "ObjectId" THEN "string" ELSE raw.id]

\* findOne, lines 90-117: the driver query settles.
QuerySettles(c, ok, raw) ==
  /\ callPc[c] = "querying"
  /\ UNCHANGED <<varsVerify, varsGate, varsKeys, varsAdmin, varsUpdate>>
  /\ IF ok
       THEN /\ callPc' = [callPc EXCEPT ![c] = "done"]
            /\ callRaw' = [callRaw EXCEPT ![c] = raw]
            /\ callResult' = [callResult EXCEPT ![c] = Serialize(raw)]
            /\ UNCHANGED callError
       ELSE /\ callPc' = [callPc EXCEPT ![c] = "failed"]
            /\ callError' = [callError EXCEPT ![c] = "driver-error"]
            /\ UNCHANGED <<callRaw, callResult>>
  /\ UNCHANGED <<dbInstance, connectPromise, attemptState, callWaitsOn,
                 callEpoch, callStarted, queryDb>>

NextMongo ==
  \/ \E c \in Calls : FindOne(c)
  \/ \E a \in Attempts, o \in ConnectOutcomes : ConnectSettles(a, o)
  \/ \E c \in Calls : ResumeAfterConnect(c)
  \/ \E c \in Calls : IssueQuery(c)
  \/ \E c \in Calls, ok \in BOOLEAN, raw \in RawDocs \cup {NoDoc} : QuerySettles(c, ok, raw)

(***************************************************************************)
(* Token verifier: values                                                   *)
(***************************************************************************)
\* JSON / JavaScript values carried by tokens, headers and API responses.
Undef == [t |-> "undefined"]
Str(s) == [t |-> "string", s |-> s]
Num(n) == [t |-> "number", n |-> n]
Bool(b) == [t |-> "boolean", b |-> b]

\* typeof v === 'number'
IsNumber(v) == v.t = "number"

\* !v for the values above
Falsy(v) ==
  \/ v.t = "undefined"
  \/ (v.t = "string" /\ v.s = "")
  \/ (v.t = "number" /\ v.n = 0)
  \/ (v.t = "boolean" /\ ~v.b)

Digits == {"0", "1", "2", "3", "4", "5", "6", "7", "8", "9"}

DigitValue(ch) ==
  CASE ch = "0" -> 0 [] ch = "1" -> 1 [] ch = "2" -> 2 [] ch = "3" -> 3
    [] ch = "4" -> 4 [] ch = "5" -> 5 [] ch = "6" -> 6 [] ch = "7" -> 7
    [] ch = "8" -> 8 [] ch = "9" -> 9

CharAt(s, i) == SubSeq(s, i, i)

\* Index of the first character of s at or after i that is not white space.
RECURSIVE SkipWhiteSpace(_, _)
SkipWhiteSpace(s, i) ==
  IF i <= Len(s) /\ CharAt(s, i) = " " THEN SkipWhiteSpace(s, i + 1) ELSE i

\* Value of the longest run of decimal digits of s starting at i, given the
\* value acc of the digits already read.
RECURSIVE ReadDigits(_, _, _)
ReadDigits(s, i, acc) ==
  IF i <= Len(s) /\ CharAt(s, i) \in Digits
    THEN ReadDigits(s, i + 1, 10 * acc + DigitValue(CharAt(s, i)))
    ELSE acc

\* parseInt(s, 10): leading white space, an optional sign, then the longest
\* prefix of digits; NaN when there is no digit.
ParseInt(s) ==
  LET i == SkipWhiteSpace(s, 1)
      signed == i <= Len(s) /\ CharAt(s, i) \in {"-", "+"}
      j == IF signed THEN i + 1 ELSE i
      mag == ReadDigits(s, j, 0)
  IN IF j <= Len(s) /\ CharAt(s, j) \in Digits
       THEN [nan |-> FALSE, n |-> IF signed /\ CharAt(s, i) = "-" THEN 0 - mag ELSE mag]
       ELSE [nan |-> TRUE]

\* First index at or after i where "max-age=" followed by a digit starts in
\* s; 0 when there is none.  (cacheControl.match(/max-age=(\d+)/), line 226)
RECURSIVE FindMaxAge(_, _)
FindMaxAge(s, i) ==
  IF i + 8 > Len(s) THEN 0
  ELSE IF SubSeq(s, i, i + 7) = "max-age=" /\ CharAt(s, i + 8) \in Digits THEN i
  ELSE FindMaxAge(s, i + 1)

\* Lifetime of a fetched key set when no max-age is given (line 227).
DefaultMaxAge == 3600

\* Lines 225-227: cache lifetime from the cache-control header.
MaxAgeOf(cacheControl) ==
  IF cacheControl.t # "string" THEN DefaultMaxAge
  ELSE LET i == FindMaxAge(cacheControl.s, 1)
       IN IF i = 0 THEN DefaultMaxAge ELSE ReadDigits(cacheControl.s, i + 8, 0)

\* this.#config.projectId of the instance under verification.
projectId == "proj"

\* Line 58.
FIREBASE_ISSUER(p) == "https://securetoken.google.com/" \o p

\* Clock-skew tolerance of the issued-at check (line 442).
IatSkew == 300

\* Longest accepted subject (line 431).
MaxSubLen == 128

\* Safety buffer taken off the access token's lifetime (line 323).
ExpiryBuffer == 60

S16 == "aaaaaaaaaaaaaaaa"
S128 == S16 \o S16 \o S16 \o S16 \o S16 \o S16 \o S16 \o S16
S129 == S128 \o "a"

(***************************************************************************)
(* Token verifier: inputs                                                   *)
(***************************************************************************)
\* Latest clock value (seconds) reached in a behaviour.
MaxNow == 1

\* Number of fields in which a presented token differs from a nominal token.
MaxDeviations == 2

\* Field values of a nominal ID token of this project, signed with key "k1".
NominalValues ==
  [alg |-> {Str("RS256")},
   kid |-> {Str("k1")},
   aud |-> {Str(projectId)},
   iss |-> {Str(FIREBASE_ISSUER(projectId))},
   sub |-> {Str("u1")},
   uid |-> {Undef},
   auth_time |-> {Num(1)},
   iat |-> {Num(300)},
   exp |-> {Num(2)},
   email_verified |-> {Bool(TRUE)},
   sig |-> {"k1"}]

\* Other values a presented token can carry in each field.  sig is the third
\* token part: absent, not base64, or a signature made with the named key.
DeviantValues ==
  [alg |-> {Str("HS256")},
   kid |-> {Undef, Str("k2")},
   aud |-> {Str("other")},
   iss |-> {Str(FIREBASE_ISSUER("other"))},
   sub |-> {Undef, Str(""), Str(S128), Str(S129)},
   uid |-> {Str("zz")},
   auth_time |-> {Undef},
   iat |-> {Undef, Num(301)},
   exp |-> {Undef, Num(1)},
   sig |-> {"none", "bad64", "k2"}]

TokenFields == {"alg", "kid", "aud", "iss", "sub", "uid", "auth_time", "iat", "exp", "sig"}

Deviations(t) == Cardinality({f \in TokenFields : t[f] \in DeviantValues[f]})

DecodableTokens ==
  {t \in [alg : NominalValues.alg \cup DeviantValues.alg,
          kid : NominalValues.kid \cup DeviantValues.kid,
          aud : NominalValues.aud \cup DeviantValues.aud,
          iss : NominalValues.iss \cup DeviantValues.iss,
          sub : NominalValues.sub \cup DeviantValues.sub,
          uid : NominalValues.uid \cup DeviantValues.uid,
          auth_time : NominalValues.auth_time \cup DeviantValues.auth_time,
          iat : NominalValues.iat \cup DeviantValues.iat,
          exp : NominalValues.exp \cup DeviantValues.exp,
          email_verified : NominalValues.email_verified,
          sig : NominalValues.sig \cup DeviantValues.sig,
          fmt : {"ok"}] : Deviations(t) <= MaxDeviations}

NominalToken ==
  [alg |-> Str("RS256"), kid |-> Str("k1"), aud |-> Str(projectId),
   iss |-> Str(FIREBASE_ISSUER(projectId)), sub |-> Str("u1"), uid |-> Undef,
   auth_time |-> Num(1), iat |-> Num(300), exp |-> Num(2),
   email_verified |-> Bool(TRUE), sig |-> "k1", fmt |-> "ok"]

\* The empty string, and strings whose header or payload does not decode.
UndecodableTokens == {[NominalToken EXCEPT !.fmt = f] : f \in {"empty", "malformed"}}

Tokens == DecodableTokens \cup UndecodableTokens

(***************************************************************************)
(* Token verifier: environment and initial state                            *)
(***************************************************************************)
NoCache == [present |-> FALSE]
NoKeys == [got |-> FALSE]
NoPayload == [fmt |-> "none"]
NoLookup == [got |-> FALSE]
NullRecord == [present |-> FALSE]

\* Key sets the provider publishes, as the key ids of well-formed keys.
PublishedKeySets == {{"k1"}, {"k1", "k2"}}

\* Responses to the fetch of GOOGLE_JWK_URL.  A key of an "ok" response is
\* well formed, lacks a required field ("malformed"), or is rejected by
\* crypto.subtle.importKey ("unimportable").
JwkResponses ==
  {[kind |-> k] : k \in {"network-error", "http-error", "bad-json"}}
  \cup {[kind |-> "ok", cacheControl |-> cc, good |-> g, bad |-> b] :
          cc \in {Undef, Str("public, max-age=1"), Str("max-age=x")},
          g \in PublishedKeySets \cup {{}},
          b \in {{}, {"malformed"}, {"unimportable"}, {"malformed", "unimportable"}}}

\* Responses of the OAuth2 token endpoint.
TokenResponses ==
  {[kind |-> k] : k \in {"network-error", "http-error", "bad-json"}}
  \cup {[kind |-> "ok", expires_in |-> e] : e \in {ExpiryBuffer + 1, 3600}}

\* tokensValidAfterTime values of a user record.
ValidAfterValues ==
  {Undef, Str(""), Str("abc"), Str("1"), Str("2"), Str("2s"), Str(" 3")}

UserRecords == {[present |-> TRUE, localId |-> "u1", tokensValidAfterTime |-> v] :
                  v \in ValidAfterValues}

\* Responses of accounts:lookup.  A JSON body has no users member
\* (hasUsers false), an empty users array, or one holding a record.
AdminResponses ==
  {[kind |-> k] : k \in {"network-error", "http-error", "non-json"}}
  \cup {[kind |-> "json", hasUsers |-> FALSE, users |-> <<>>]}
  \cup {[kind |-> "json", hasUsers |-> TRUE, users |-> u] :
          u \in {<<>>} \cup {<<r>> : r \in UserRecords}}

\* The lookups of the key set that may overlap.
Lookups == {"first", "second"}

\* No response received.
NoJwkResponse == [kind |-> "none"]

\* The setCustomUserClaims calls that may overlap.
AdminCalls == {"first", "second"}

\* No AccessToken obtained; no answer of the token endpoint received.
NoToken == [got |-> FALSE]
NoTokenResponse == [kind |-> "none"]

\* No updateUser call made: every property undefined, no request body.
NoProperties ==
  [displayName |-> Undef, email |-> Undef, emailVerified |-> Undef,
   password |-> Undef, phoneNumber |-> Undef, photoURL |-> Undef,
   disabled |-> Undef]

NoPayloadBody == [built |-> FALSE]

\* Request gate: values of the locals before a request.
Null == [t |-> "null"]

NoRequest == [pathname |-> "", mode |-> Null, oobCode |-> Null, authorization |-> Null]

\* No revokeRefreshTokens call made.
NoRevoke == [state |-> "none", uid |-> Undef]

\* The client holds no redirect to follow.
NoFollow == [pending |-> FALSE, location |-> "", authorization |-> Null]

\* verificationError is null.
NoError == [set |-> FALSE, firebase |-> FALSE, code |-> "none"]

\* Responses: kind "next" passes the request on, "redirect" and "json" answer
\* it.  csp, xuid and xiat are the Content-Security-Policy, x-uid and x-iat
\* headers of the response object returned (Undef when not set).
NoResponse ==
  [kind |-> "none", status |-> 0, location |-> Undef, csp |-> Undef,
   xuid |-> Undef, xiat |-> Undef]

\* State after construction of the durable object (lines 14-36) and after load
\* of the firebase-admin module (lines 128, 136), before any call.
Init ==
  /\ dbInstance = NoDb
  /\ connectPromise = NoPromise
  /\ attemptState = [a \in Attempts |-> "unused"]
  /\ callPc = [c \in Calls |-> "idle"]
  /\ callWaitsOn = [c \in Calls |-> NoPromise]
  /\ callEpoch = [c \in Calls |-> 0]
  /\ callStarted = [c \in Calls |-> NoPromise]
  /\ callError = [c \in Calls |-> "none"]
  /\ callResult = [c \in Calls |-> NoDoc]
  /\ callRaw = [c \in Calls |-> NoDoc]
  /\ queryDb = [c \in Calls |-> NoDb]
  /\ clock = 0
  /\ jwkCache = NoCache
  /\ accessTokenCache = NoCache
  /\ vPc = "idle"
  /\ vToken = NominalToken
  /\ vCheckRevoked = FALSE
  /\ vNow = 0
  /\ vCode = "none"
  /\ vResult = NoPayload
  /\ vKeys = NoKeys
  /\ vUser = NoLookup
  /\ lookupNow = 0
  /\ exchNow = 0
  /\ jwkLookups = 0
  /\ firebaseAdmin = FALSE
  /\ gPc = "idle"
  /\ gReq = NoRequest
  /\ gInitError = FALSE
  /\ gDecoded = NoPayload
  /\ gError = NoError
  /\ gResp = NoResponse
  /\ verifyCalls = 0
  /\ revokeCalls = 0
  /\ gRevoke = NoRevoke
  /\ gChain = <<>>
  /\ gFollow = NoFollow
  /\ revokedUsers = {}
  /\ kPc = [c \in Lookups |-> "idle"]
  /\ kNow = [c \in Lookups |-> 0]
  /\ kFetches = [c \in Lookups |-> 0]
  /\ kKeys = [c \in Lookups |-> {}]
  /\ kCode = [c \in Lookups |-> "none"]
  /\ kResp = [c \in Lookups |-> NoJwkResponse]
  /\ aPc = [c \in AdminCalls |-> "idle"]
  /\ aClaims = [c \in AdminCalls |-> Null]
  /\ aNow = [c \in AdminCalls |-> 0]
  /\ aExchanges = [c \in AdminCalls |-> 0]
  /\ aPosts = [c \in AdminCalls |-> 0]
  /\ aToken = [c \in AdminCalls |-> NoToken]
  /\ aCode = [c \in AdminCalls |-> "none"]
  /\ aResp = [c \in AdminCalls |-> NoTokenResponse]
  /\ tokenValidUntil = 0
  /\ uPc = "idle"
  /\ uProperties = NoProperties
  /\ uPayload = NoPayloadBody
  /\ uNow = 0
  /\ uExchanges = 0
  /\ uPosts = 0
  /\ uCode = "none"
  /\ jwkFetches = 0
  /\ sigVerifies = 0
  /\ tokenExchanges = 0
  /\ adminRequests = 0

(***************************************************************************)
(* Token verifier: the claim checks, lines 410-451                          *)
(***************************************************************************)
\* v > n in JavaScript for a claim that is undefined or a number
\* (undefined > n is false).
Gt_Inclusive(v, n) == IsNumber(v) /\ v.n >= n
Gt(v, n) == IsNumber(v) /\ v.n > n

\* Line 449: payload.exp <= now.
Expired_Strict(exp, n) == IsNumber(exp) /\ exp.n < n
Expired(exp, n) == IsNumber(exp) /\ exp.n <= n

\* The if statements of lines 411-451 in source order.
ClaimChecks_IssuerFirst ==
  <<"algorithm", "kid", "issuer", "audience", "subject", "auth_time",
    "iat-missing", "iat-future", "exp-missing", "expired">>
ClaimChecks_AuthTimeLast ==
  <<"algorithm", "kid", "audience", "issuer", "subject",
    "iat-missing", "iat-future", "exp-missing", "expired", "auth_time">>
ClaimChecks_ExpiryFirst ==
  <<"algorithm", "kid", "exp-missing", "expired", "audience", "issuer",
    "subject", "auth_time", "iat-missing", "iat-future">>
ClaimChecks ==
  <<"algorithm", "kid", "audience", "issuer", "subject", "auth_time",
    "iat-missing", "iat-future", "exp-missing", "expired">>

\* Condition of each if statement.
CheckFails(check, t, cr, n) ==
  CASE check = "algorithm"   -> t.alg # Str("RS256")
    [] check = "kid"         -> Falsy(t.kid)
    [] check = "audience"    -> t.aud # Str(projectId)
    [] check = "issuer"      -> t.iss # Str(FIREBASE_ISSUER(projectId))
    [] check = "subject"     -> \/ Falsy(t.sub)
                                \/ t.sub.t # "string"
                                \/ Len(t.sub.s) = 0
                                \/ Len(t.sub.s) > MaxSubLen
    [] check = "auth_time"   -> cr /\ ~IsNumber(t.auth_time)
    [] check = "iat-missing" -> ~IsNumber(t.iat)
    [] check = "iat-future"  -> Gt(t.iat, n + IatSkew)
    [] check = "exp-missing" -> ~IsNumber(t.exp)
    [] check = "expired"     -> Expired(t.exp, n)

\* Code of the error each if statement throws.
CheckCode(check) ==
  CASE check = "algorithm"   -> "invalid-algorithm"
    [] check = "kid"         -> "missing-kid"
    [] check = "audience"    -> "invalid-audience"
    [] check = "issuer"      -> "invalid-issuer"
    [] check = "subject"     -> "invalid-subject"
    [] check = "auth_time"   -> "missing-auth-time"
    [] check = "iat-missing" -> "missing-iat"
    [] check = "iat-future"  -> "iat-in-future"
    [] check = "exp-missing" -> "missing-expiration"
    [] check = "expired"     -> "token-expired"

RECURSIVE FirstFailure(_, _, _, _)
FirstFailure(i, t, cr, n) ==
  IF i > Len(ClaimChecks) THEN "ok"
  ELSE IF CheckFails(ClaimChecks[i], t, cr, n) THEN CheckCode(ClaimChecks[i])
  ELSE FirstFailure(i + 1, t, cr, n)

\* Lines 397-451: the part of verifyIdToken before the key lookup; the code
\* of the error thrown, or "ok".
SyncCheck(t, cr, n) ==
  IF t.fmt = "empty" THEN "invalid-argument"
  ELSE IF t.fmt = "malformed" THEN "invalid-id-token"
  ELSE FirstFailure(1, t, cr, n)

(***************************************************************************)
(* Token verifier: key lookup, signature, revocation                        *)
(***************************************************************************)
\* Lines 215 and 300: a cache entry exists and now < expiry.
CacheFresh_Inclusive(cache, n) == cache.present /\ n <= cache.expiry
CacheFresh(cache, n) == cache.present /\ n < cache.expiry

\* Lines 323-325: the entry cached for an answer of the token endpoint, with
\* n the now of line 299.
AccessTokenEntry_NoBuffer(n, resp) ==
  [present |-> TRUE, expiry |-> n + resp.expires_in]
AccessTokenEntry(n, resp) ==
  [present |-> TRUE, expiry |-> n + resp.expires_in - ExpiryBuffer]

\* Lines 220-259: outcome of #fetchGooglePublicKeys for a response, with n
\* the now of line 213: an error code, or "ok" with the new cache entry.
\* Promise.all rejects with the first rejection: a malformed key throws in
\* the synchronous part of its callback, an import failure rejects later.
ProcessJwkResponse(resp, n) ==
  IF resp.kind = "network-error" THEN [code |-> "jwk-processing-error"]
  ELSE IF resp.kind = "http-error" THEN [code |-> "jwk-fetch-failed"]
  ELSE IF resp.kind = "bad-json" THEN [code |-> "jwk-processing-error"]
  ELSE IF "malformed" \in resp.bad THEN [code |-> "invalid-jwk"]
  ELSE IF "unimportable" \in resp.bad THEN [code |-> "jwk-processing-error"]
  ELSE IF resp.good = {} THEN [code |-> "no-valid-jwks"]
  ELSE [code |-> "ok",
        entry |-> [present |-> TRUE, keys |-> resp.good,
                   expiry |-> n + MaxAgeOf(resp.cacheControl)]]

\* Lines 456-465: key for the token's kid, then the signature part.
KeyStage(t, keys) ==
  IF t.kid.s \notin keys THEN "no-matching-kid"
  ELSE IF t.sig = "none" THEN "invalid-id-token-format"
  ELSE "ok"

\* Lines 475-480: crypto.subtle.verify of the signature part over
\* header.payload with the key of the token's kid.
SignatureValid_Always(t) == TRUE
SignatureValid(t) == t.sig = t.kid.s

\* Lines 491-495: the payload with uid standardized.
Payload_KeepUid(t) == t
Payload(t) == [t EXCEPT !.uid = t.sub]

\* Lines 343-359 and 363-384: the user record #getUserRecord returns for a
\* response of accounts:lookup; every error is caught and gives null.
UserRecordOf(resp) ==
  IF resp.kind \in {"network-error", "http-error", "non-json"} THEN NullRecord
  ELSE IF ~resp.hasUsers \/ Len(resp.users) = 0 THEN NullRecord
  ELSE resp.users[1]

\* Lines 501-504: code thrown when no user record was obtained.
NoRecordCode_Accept == "ok"
NoRecordCode == "user-not-found"

\* Lines 507-524: the revocation check on a user record.
RevocationCode(rec, authTime) ==
  IF ~Falsy(rec.tokensValidAfterTime)
    THEN LET validSince == ParseInt(rec.tokensValidAfterTime.s)
         IN IF ~validSince.nan
              THEN IF authTime.n < validSince.n THEN "id-token-revoked" ELSE "ok"
              ELSE "invalid-revocation-format"
    ELSE "ok"

Throw(code) ==
  /\ vPc' = "thrown"
  /\ vCode' = code
  /\ vResult' = NoPayload

Return ==
  /\ vPc' = "returned"
  /\ vCode' = "none"
  /\ vResult' = Payload(vToken)

\* Lines 456-466 once the key map is there.
AfterKeys(t, keys) ==
  LET code == KeyStage(t, keys)
  IN IF code = "ok"
       THEN vPc' = "sigCheck" /\ vCode' = "none" /\ vResult' = NoPayload
       ELSE Throw(code)

\* VerifyIdTokenCall with the key set requested before the checks of lines
\* 397-451.
VerifyIdTokenCall_KeysFirst(t, cr) ==
  /\ vPc = "idle"
  /\ vToken' = t
  /\ vCheckRevoked' = cr
  /\ vNow' = clock
  /\ vUser' = NoLookup
  /\ exchNow' = 0
  /\ sigVerifies' = 0
  /\ tokenExchanges' = 0
  /\ adminRequests' = 0
  /\ IF SyncCheck(t, cr, clock) # "ok"
       THEN /\ Throw(SyncCheck(t, cr, clock))
            /\ vKeys' = NoKeys
            /\ lookupNow' = 0
            /\ jwkLookups' = 1
            /\ jwkFetches' = IF CacheFresh(jwkCache, clock) THEN 0 ELSE 1
       ELSE /\ jwkLookups' = 1
            /\ lookupNow' = clock
            /\ IF CacheFresh(jwkCache, clock)
                 THEN /\ vKeys' = [got |-> TRUE, keys |-> jwkCache.keys]
                      /\ jwkFetches' = 0
                      /\ AfterKeys(t, jwkCache.keys)
                 ELSE /\ vKeys' = NoKeys
                      /\ jwkFetches' = 1
                      /\ vPc' = "jwkFetch"
                      /\ vCode' = "none"
                      /\ vResult' = NoPayload
  /\ UNCHANGED <<clock, jwkCache, accessTokenCache>>

\* verifyIdToken up to its first pending await: lines 397-451, then the
\* synchronous part of #fetchGooglePublicKeys (lines 213-220) and, on a
\* cache hit, lines 456-466.
VerifyIdTokenCall(t, cr) ==
  /\ vPc = "idle"
  /\ vToken' = t
  /\ vCheckRevoked' = cr
  /\ vNow' = clock
  /\ vUser' = NoLookup
  /\ exchNow' = 0
  /\ sigVerifies' = 0
  /\ tokenExchanges' = 0
  /\ adminRequests' = 0
  /\ IF SyncCheck(t, cr, clock) # "ok"
       THEN /\ Throw(SyncCheck(t, cr, clock))
            /\ vKeys' = NoKeys
            /\ lookupNow' = 0
            /\ jwkLookups' = 0
            /\ jwkFetches' = 0
       ELSE /\ jwkLookups' = 1
            /\ lookupNow' = clock
            /\ IF CacheFresh(jwkCache, clock)
                 THEN /\ vKeys' = [got |-> TRUE, keys |-> jwkCache.keys]
                      /\ jwkFetches' = 0
                      /\ AfterKeys(t, jwkCache.keys)
                 ELSE /\ vKeys' = NoKeys
                      /\ jwkFetches' = 1
                      /\ vPc' = "jwkFetch"
                      /\ vCode' = "none"
                      /\ vResult' = NoPayload
  /\ UNCHANGED <<clock, jwkCache, accessTokenCache>>

\* A call of verifyIdToken by a caller outside this model.
VerifyIdToken(t, cr) ==
  /\ VerifyIdTokenCall(t, cr)
  /\ UNCHANGED <<varsMongo, varsGate, varsKeys, varsAdmin, varsUpdate>>

\* The fetch of the key set settles: lines 221-259, then lines 456-466.
JwkResponse(resp) ==
  /\ vPc = "jwkFetch"
  /\ LET r == ProcessJwkResponse(resp, lookupNow)
     IN IF r.code = "ok"
          THEN /\ jwkCache' = r.entry
               /\ vKeys' = [got |-> TRUE, keys |-> r.entry.keys]
               /\ AfterKeys(vToken, r.entry.keys)
          ELSE /\ Throw(r.code)
               /\ UNCHANGED <<jwkCache, vKeys>>
  /\ UNCHANGED <<clock, accessTokenCache, vToken, vCheckRevoked, vNow, vUser,
                 lookupNow, exchNow, jwkLookups, jwkFetches, sigVerifies,
                 tokenExchanges, adminRequests>>
  /\ UNCHANGED <<varsMongo, varsGate, varsKeys, varsAdmin, varsUpdate>>

\* Base64Url.decode of the signature part settles: lines 466-489 and, for a
\* valid signature, lines 491-499 with the synchronous part of
\* #getUserRecord (lines 366, 330, 299-304).
SignatureChecked ==
  /\ vPc = "sigCheck"
  /\ IF vToken.sig = "bad64"
       THEN /\ Throw("signature-verification-failed")
            /\ UNCHANGED <<sigVerifies, exchNow, adminRequests>>
       ELSE /\ sigVerifies' = 1
            /\ IF ~SignatureValid(vToken)
                 THEN /\ Throw("invalid-signature")
                      /\ UNCHANGED <<exchNow, adminRequests>>
                 ELSE IF ~vCheckRevoked
                   THEN /\ Return
                        /\ UNCHANGED <<exchNow, adminRequests>>
                   ELSE /\ exchNow' = clock
                        /\ vCode' = "none"
                        /\ vResult' = NoPayload
                        /\ IF CacheFresh(accessTokenCache, clock)
                             THEN vPc' = "adminRequest" /\ adminRequests' = 1
                             ELSE vPc' = "signAssertion" /\ adminRequests' = 0
  /\ UNCHANGED <<clock, jwkCache, accessTokenCache, vToken, vCheckRevoked, vNow,
                 vKeys, vUser, lookupNow, jwkLookups, jwkFetches, tokenExchanges>>
  /\ UNCHANGED <<varsMongo, varsGate, varsKeys, varsAdmin, varsUpdate>>

\* Lines 499-527 once #getUserRecord has its result.
FinishLookup(rec, via) ==
  /\ vUser' = [got |-> TRUE, via |-> via, rec |-> rec]
  /\ LET code == IF ~rec.present THEN NoRecordCode
                 ELSE RevocationCode(rec, vToken.auth_time)
     IN IF code = "ok" THEN Return ELSE Throw(code)

\* #createSignedJwt settles (lines 262-296): the assertion is signed and
\* posted to the token endpoint (line 306), or importing the private key or
\* signing throws, which #getUserRecord catches.
AssertionSigned(ok) ==
  /\ vPc = "signAssertion"
  /\ IF ok
       THEN /\ vPc' = "tokenExchange"
            /\ tokenExchanges' = 1
            /\ UNCHANGED <<vCode, vResult, vUser>>
       ELSE /\ FinishLookup(NullRecord, "assertion-failed")
            /\ UNCHANGED tokenExchanges
  /\ UNCHANGED <<clock, jwkCache, accessTokenCache, vToken, vCheckRevoked, vNow,
                 vKeys, lookupNow, exchNow, jwkLookups, jwkFetches, sigVerifies,
                 adminRequests>>
  /\ UNCHANGED <<varsMongo, varsGate, varsKeys, varsAdmin, varsUpdate>>

\* The token endpoint answers: lines 317-327, then line 333.
TokenResponse(resp) ==
  /\ vPc = "tokenExchange"
  /\ IF resp.kind = "ok"
       THEN /\ accessTokenCache' = AccessTokenEntry(exchNow, resp)
            /\ vPc' = "adminRequest"
            /\ adminRequests' = 1
            /\ UNCHANGED <<vCode, vResult, vUser>>
       ELSE /\ FinishLookup(NullRecord, "exchange-failed")
            /\ UNCHANGED <<accessTokenCache, adminRequests>>
  /\ UNCHANGED <<clock, jwkCache, vToken, vCheckRevoked, vNow, vKeys, lookupNow,
                 exchNow, jwkLookups, jwkFetches, sigVerifies, tokenExchanges>>
  /\ UNCHANGED <<varsMongo, varsGate, varsKeys, varsAdmin, varsUpdate>>

\* accounts:lookup answers: lines 343-359, 371-383, then lines 501-527.
AdminResponse(resp) ==
  /\ vPc = "adminRequest"
  /\ FinishLookup(UserRecordOf(resp),
                  IF resp.kind = "json" THEN "answered" ELSE "request-failed")
  /\ UNCHANGED <<clock, jwkCache, accessTokenCache, vToken, vCheckRevoked, vNow,
                 vKeys, lookupNow, exchNow, jwkLookups, jwkFetches, sigVerifies,
                 tokenExchanges, adminRequests>>
  /\ UNCHANGED <<varsMongo, varsGate, varsKeys, varsAdmin, varsUpdate>>

\* The caller takes the settled result; the locals of the call are gone and
\* the instance is ready for the next call.  The module-level caches stay.
CallCompletes ==
  /\ vPc \in {"returned", "thrown"}
  /\ vPc' = "idle"
  /\ vToken' = NominalToken
  /\ vCheckRevoked' = FALSE
  /\ vNow' = 0
  /\ vCode' = "none"
  /\ vResult' = NoPayload
  /\ vKeys' = NoKeys
  /\ vUser' = NoLookup
  /\ lookupNow' = 0
  /\ exchNow' = 0
  /\ jwkLookups' = 0
  /\ jwkFetches' = 0
  /\ sigVerifies' = 0
  /\ tokenExchanges' = 0
  /\ adminRequests' = 0
  /\ UNCHANGED <<clock, jwkCache, accessTokenCache>>
  /\ UNCHANGED <<varsMongo, varsGate, varsKeys, varsAdmin, varsUpdate>>

\* Time passes.
Tick ==
  /\ clock < MaxNow
  /\ clock' = clock + 1
  /\ UNCHANGED <<jwkCache, accessTokenCache, vPc, vToken, vCheckRevoked, vNow,
                 vCode, vResult, vKeys, vUser, lookupNow, exchNow, jwkLookups,
                 jwkFetches, sigVerifies, tokenExchanges, adminRequests>>
  /\ UNCHANGED <<varsMongo, varsGate, varsKeys, varsAdmin, varsUpdate>>

NextVerify ==
  \/ \E t \in Tokens, cr \in BOOLEAN : VerifyIdToken(t, cr)
  \/ \E resp \in JwkResponses : JwkResponse(resp)
  \/ SignatureChecked
  \/ \E ok \in BOOLEAN : AssertionSigned(ok)
  \/ \E resp \in TokenResponses : TokenResponse(resp)
  \/ \E resp \in AdminResponses : AdminResponse(resp)
  \/ CallCompletes
  \/ Tick

(***************************************************************************)
(* Request gate: values                                                     *)
(***************************************************************************)
\* authRoutes (middleware.ts lines 67-75).
authRoutes ==
  <<"/login", "/signup", "/reset", "/forget-pass", "/reset-pass", "/verify-email",
    "/recover-email">>

\* excludedRoutes (line 77): URLPattern of the exact pathname on the request's
\* own base URL, any search and hash.
excludedRoutes == <<"/api/lemon", "/api/hc", "/api/hello">>

\* Array.prototype.includes
Includes(list, x) == \E i \in DOMAIN list : list[i] = x

\* String.prototype.startsWith
StartsWith(str, prefix) ==
  /\ Len(str) >= Len(prefix)
  /\ SubSeq(str, 1, Len(prefix)) = prefix

\* Line 84: excludedRoutes.some((r) => r.test(pathname, baseUrl))
IsExcluded_FirstOnly(pathname) == pathname = excludedRoutes[1]

IsExcluded(pathname) == Includes(excludedRoutes, pathname)

\* Lines 116, 155: pathname.startsWith('/api')
IsApi(pathname) == StartsWith(pathname, "/api")

\* cspHeader with its white space collapsed and trimmed (lines 56-60).
contentSecurityPolicyHeaderValue == "frame-ancestors 'self';"

\* NextResponse.next(): a fresh pass-through response without headers set.
NextResponseNext ==
  [kind |-> "next", status |-> 200, location |-> Undef, csp |-> Undef,
   xuid |-> Undef, xiat |-> Undef]

\* res (lines 62-65): NextResponse.next() with the CSP header set on it.
res == [NextResponseNext EXCEPT !.csp = Str(contentSecurityPolicyHeaderValue)]

\* redirect(req, path) (lines 37-40): NextResponse.redirect, status 307.
redirect(path) ==
  [kind |-> "redirect", status |-> 307, location |-> Str(path), csp |-> Undef,
   xuid |-> Undef, xiat |-> Undef]

\* NextResponse.json(body, {status}) (line 117).
NextResponseJson(status) ==
  [kind |-> "json", status |-> status, location |-> Undef, csp |-> Undef,
   xuid |-> Undef, xiat |-> Undef]

\* Line 117: the answer to an API request when initializeFirebaseAdmin threw.
InitErrorResponse_PassThrough == res

InitErrorResponse == NextResponseJson(500)

\* apiError({status, message}): a JSON error body with the given HTTP status,
\* a response object of its own.
apiError(status) == NextResponseJson(status)

\* `${code}` in a template literal: null prints as "null".
TemplateString(v) == IF v.t = "null" THEN "null" ELSE v.s

\* The /auth/action branch (lines 89-107).
AuthAction_ResetForReset(mode, code) ==
  IF mode = Str("signIn") THEN redirect("/signup?code=" \o TemplateString(code))
  ELSE IF mode = Str("resetPassword")
    THEN redirect("/reset?code=" \o TemplateString(code))
  ELSE IF mode = Str("verifyEmail")
    THEN redirect("/verify-email?code=" \o TemplateString(code))
  ELSE IF mode = Str("recoverEmail")
    THEN redirect("/recover-email?code=" \o TemplateString(code))
  ELSE NextResponseNext

AuthAction(mode, code) ==
  IF mode = Str("signIn") THEN redirect("/signup?code=" \o TemplateString(code))
  ELSE IF mode = Str("resetPassword")
    THEN redirect("/reset-pass?code=" \o TemplateString(code))
  ELSE IF mode = Str("verifyEmail")
    THEN redirect("/verify-email?code=" \o TemplateString(code))
  ELSE IF mode = Str("recoverEmail")
    THEN redirect("/recover-email?code=" \o TemplateString(code))
  ELSE NextResponseNext

\* getToken (lib/utils.ts lines 7-9): headers.get('authorization') is null or
\* a string; the part after 'Bearer ' is the token, undefined when the
\* header does not contain 'Bearer '.
getToken(authorization) ==
  IF authorization.t = "string" /\ authorization.scheme = "Bearer"
    THEN [t |-> "string", tok |-> authorization.tok]
    ELSE Undef

\* Truthiness of the token string (line 134): defined and not empty.
TokenTruthy(token) == token.t = "string" /\ token.tok.fmt # "empty"

\* verificationError (lines 130-148).
AuthError(code) == [set |-> TRUE, firebase |-> TRUE, code |-> code]
PlainError(message) == [set |-> TRUE, firebase |-> FALSE, code |-> message]

\* Lines 152-153.
isTokenValid(decodedToken, verificationError) ==
  decodedToken.fmt # "none" /\ ~verificationError.set

isEmailVerified_Loose(decodedToken) ==
  decodedToken.fmt # "none" /\ ~Falsy(decodedToken.email_verified)

isEmailVerified(decodedToken) ==
  decodedToken.fmt # "none" /\ decodedToken.email_verified = Bool(TRUE)

\* Lines 157-160: the status of an API request that is not authenticated.
DenyStatus(verificationError) ==
  IF /\ verificationError.firebase
     /\ verificationError.code \in {"id-token-expired", "id-token-revoked"}
    THEN 401 ELSE 403

\* Lines 156-161 and 179-184: token missing or not verified.
Unauthenticated_LoginOnly(pathname, verificationError) ==
  IF IsApi(pathname) THEN apiError(DenyStatus(verificationError))
  ELSE IF pathname = "/login" THEN res
  ELSE redirect("/login")

Unauthenticated(pathname, verificationError) ==
  IF IsApi(pathname) THEN apiError(DenyStatus(verificationError))
  ELSE IF Includes(<<"/try">> \o authRoutes, pathname) THEN res
  ELSE redirect("/login")

\* Lines 169 and 193-196, once the revoke call has settled either way.
Unverified_AlwaysLogin(pathname) ==
  IF IsApi(pathname) THEN apiError(401)
  ELSE redirect("/login")

Unverified_Allow(pathname) ==
  IF IsApi(pathname) THEN apiError(401)
  ELSE res

Unverified(pathname) ==
  IF IsApi(pathname) THEN apiError(401)
  ELSE IF Includes(authRoutes, pathname) THEN res
  ELSE redirect("/login")

\* Lines 172-176 and 198-203: token verified and email verified.
Verified_AuthRoutesOnly(pathname, decodedToken) ==
  IF IsApi(pathname)
    THEN [res EXCEPT !.xuid = decodedToken.uid,
                     !.xiat = IF Falsy(decodedToken.iat) THEN Undef
                              ELSE Str(ToString(decodedToken.iat.n))]
  ELSE IF Includes(authRoutes, pathname) THEN redirect("/")
  ELSE res

Verified_AuthTimeIat(pathname, decodedToken) ==
  IF IsApi(pathname)
    THEN [res EXCEPT !.xuid = decodedToken.uid,
                     !.xiat = IF Falsy(decodedToken.auth_time) THEN Undef
                              ELSE Str(ToString(decodedToken.auth_time.n))]
  ELSE IF Includes(<<"/try">> \o authRoutes, pathname) THEN redirect("/")
  ELSE res

Verified(pathname, decodedToken) ==
  IF IsApi(pathname)
    THEN [res EXCEPT !.xuid = decodedToken.uid,
                     !.xiat = IF Falsy(decodedToken.iat) THEN Undef
                              ELSE Str(ToString(decodedToken.iat.n))]
  ELSE IF Includes(<<"/try">> \o authRoutes, pathname) THEN redirect("/")
  ELSE res

\* req.nextUrl.pathname of the request a client makes for a Location header
\* (line 38: new URL(path, req.url)): the part before the search and hash.
RECURSIVE SearchStart(_, _)
SearchStart(location, i) ==
  IF i > Len(location) THEN i
  ELSE IF SubSeq(location, i, i) \in {"?", "#"} THEN i
  ELSE SearchStart(location, i + 1)

Pathname(location) == SubSeq(location, 1, SearchStart(location, 1) - 1)

\* The class the gate put the credentials of the request in (lines 84, 89,
\* 152-153): none for the routes answered before the token is read.
Verdict(pathname, decodedToken, verificationError) ==
  IF IsExcluded(pathname) \/ pathname = "/auth/action" THEN "none"
  ELSE IF ~isTokenValid(decodedToken, verificationError) THEN "unauthenticated"
  ELSE IF ~isEmailVerified(decodedToken) THEN "unverified"
  ELSE "verified"

(***************************************************************************)
(* Request gate: inputs                                                     *)
(***************************************************************************)
MaxGateDeviations == 1

\* Redirects a client follows in one chain.
MaxHops == 2

\* Values of the email_verified claim other than true.
UnverifiedEmailValues == {Undef, Bool(FALSE), Str("true")}

\* Tokens presented to the gate: those of the verifier with few deviations,
\* and the same with an email_verified claim that is not true.
GateTokens ==
  {t \in Tokens : Deviations(t) <= MaxGateDeviations}
  \cup {[t EXCEPT !.email_verified = v] :
          t \in {u \in Tokens : Deviations(u) < MaxGateDeviations},
          v \in UnverifiedEmailValues}

\* A token of each kind: verified, email not verified, expired once the clock
\* reaches 1, undecodable.
KindTokens ==
  {NominalToken, [NominalToken EXCEPT !.exp = Num(1)],
   [NominalToken EXCEPT !.exp = Num(1), !.email_verified = Bool(FALSE)]}
  \cup {[NominalToken EXCEPT !.email_verified = v] : v \in UnverifiedEmailValues}
  \cup UndecodableTokens

\* Authorization header of a request: absent, another scheme, or Bearer
\* followed by a token (possibly the empty string).
Bearer(T) == {[t |-> "string", scheme |-> "Bearer", tok |-> t] : t \in T}

Authorizations == {Null, [t |-> "string", scheme |-> "Basic"]} \cup Bearer(GateTokens)

KindAuthorizations == {Null, [t |-> "string", scheme |-> "Basic"]} \cup Bearer(KindTokens)

\* Paths requested with every authorization, and paths requested with one
\* authorization of each kind.
Paths == {"/api/forms", "/"}

KindPaths == {"/api/hc", "/api/lemon", "/apiary", "/login", "/verify-email", "/try",
              "/dashboard"}

Modes == {Null, Str("signIn"), Str("resetPassword"), Str("verifyEmail"),
          Str("recoverEmail"), Str("other")}

Codes == {Null, Str("abc"), Str("a&b")}

Requests ==
  {[pathname |-> p, mode |-> Null, oobCode |-> Null, authorization |-> a] :
     p \in Paths, a \in Authorizations}
  \cup {[pathname |-> p, mode |-> Null, oobCode |-> Null, authorization |-> a] :
          p \in KindPaths, a \in KindAuthorizations}
  \cup {[pathname |-> "/auth/action", mode |-> m, oobCode |-> c, authorization |-> a] :
          m \in Modes, c \in Codes,
          a \in {Null} \cup Bearer({NominalToken,
                                     [NominalToken EXCEPT !.email_verified = Bool(FALSE)]})}

\* The users whose revocations are followed: the user of the nominal token.
TrackedUsers == {NominalToken.sub}

\* Responses of accounts:update.
UpdateResponses == {[kind |-> k] : k \in {"ok", "network-error", "http-error"}}

(***************************************************************************)
(* Request gate: actions                                                    *)
(***************************************************************************)
\* return of the middleware function.
Respond(resp) ==
  /\ gPc' = "responded"
  /\ gResp' = resp

\* middleware up to its first pending await or its return: lines 44-149 and,
\* when verifyIdToken is not called, lines 152-161 or 179-184.  initOk is
\* whether initializeFirebaseAdmin (lines 14-34) finds a usable
\* configuration when firebaseAdmin is not yet set.
Middleware(req, initOk) ==
  /\ gPc = "idle"
  /\ gReq' = req
  /\ gDecoded' = NoPayload
  /\ revokeCalls' = 0
  /\ gRevoke' = NoRevoke
  /\ IF IsExcluded(req.pathname)
       THEN /\ Respond(res)
            /\ gInitError' = FALSE
            /\ gError' = NoError
            /\ verifyCalls' = 0
            /\ UNCHANGED firebaseAdmin
            /\ UNCHANGED varsVerify
     ELSE IF req.pathname = "/auth/action"
       THEN /\ Respond(AuthAction(req.mode, req.oobCode))
            /\ gInitError' = FALSE
            /\ gError' = NoError
            /\ verifyCalls' = 0
            /\ UNCHANGED firebaseAdmin
            /\ UNCHANGED varsVerify
     ELSE LET admin == firebaseAdmin \/ initOk
              token == getToken(req.authorization)
          IN /\ firebaseAdmin' = admin
             /\ gInitError' = ~admin
             /\ IF ~admin /\ IsApi(req.pathname)
                  THEN /\ Respond(InitErrorResponse)
                       /\ gError' = NoError
                       /\ verifyCalls' = 0
                       /\ UNCHANGED varsVerify
                ELSE IF TokenTruthy(token) /\ admin
                  THEN /\ VerifyIdTokenCall(token.tok, FALSE)
                       /\ verifyCalls' = 1
                       /\ gPc' = "verifying"
                       /\ gResp' = NoResponse
                       /\ gError' = NoError
                ELSE LET verificationError ==
                           IF ~TokenTruthy(token)
                             THEN PlainError("No token provided")
                             ELSE PlainError("Firebase Admin not initialized")
                     IN /\ gError' = verificationError
                        /\ verifyCalls' = 0
                        /\ Respond(Unauthenticated(req.pathname, verificationError))
                        /\ UNCHANGED varsVerify
  /\ UNCHANGED <<varsMongo, varsKeys, varsAdmin, varsUpdate>>

\* A client sends a request of its own: middleware (line 44) runs on it.
\* A client that holds a redirect follows it first.
Request(req, initOk) ==
  /\ ~gFollow.pending
  /\ Middleware(req, initOk)
  /\ gChain' = <<>>
  /\ gFollow' = NoFollow
  /\ UNCHANGED revokedUsers

\* A client follows the redirect it got (lines 37-40): middleware runs on a
\* request for the Location, with the Authorization header of the request
\* that was redirected.
FollowRedirect(initOk) ==
  /\ gFollow.pending
  /\ Middleware([pathname |-> Pathname(gFollow.location), mode |-> Null,
                 oobCode |-> Null, authorization |-> gFollow.authorization],
                initOk)
  /\ gFollow' = NoFollow
  /\ UNCHANGED <<gChain, revokedUsers>>

\* The synchronous part of revokeRefreshTokens (lines 589-595 of
\* firebase-admin.ts), #makeFirebaseAdminApiRequest (line 330) and
\* #fetchAccessToken (lines 299-304).
RevokeRefreshTokensCall_OncePerUser(uid) ==
  IF uid \in revokedUsers
    THEN /\ Respond(Unverified(gReq.pathname))
         /\ UNCHANGED <<revokeCalls, gRevoke, exchNow, adminRequests>>
    ELSE /\ revokeCalls' = revokeCalls + 1
         /\ gRevoke' = [state |-> "pending", uid |-> uid]
         /\ gResp' = NoResponse
         /\ exchNow' = clock
         /\ IF CacheFresh(accessTokenCache, clock)
              THEN gPc' = "revokePost" /\ adminRequests' = 1
              ELSE gPc' = "revokeSign" /\ adminRequests' = 0

RevokeRefreshTokensCall_Skip(uid) ==
  /\ Respond(Unverified(gReq.pathname))
  /\ UNCHANGED <<revokeCalls, gRevoke, exchNow, adminRequests>>

RevokeRefreshTokensCall(uid) ==
  /\ revokeCalls' = revokeCalls + 1
  /\ gRevoke' = [state |-> "pending", uid |-> uid]
  /\ gResp' = NoResponse
  /\ exchNow' = clock
  /\ IF CacheFresh(accessTokenCache, clock)
       THEN gPc' = "revokePost" /\ adminRequests' = 1
       ELSE gPc' = "revokeSign" /\ adminRequests' = 0

\* The verifyIdToken call settles: lines 135-143, then lines 152-204 up to
\* the await of revokeRefreshTokens or the return.  Every error verifyIdToken
\* throws is a FirebaseAuthError.
VerificationSettles ==
  /\ gPc = "verifying"
  /\ vPc \in {"returned", "thrown"}
  /\ LET decodedToken == IF vPc = "returned" THEN vResult ELSE NoPayload
         verificationError == IF vPc = "thrown" THEN AuthError(vCode) ELSE NoError
     IN /\ gDecoded' = decodedToken
        /\ gError' = verificationError
        /\ IF ~isTokenValid(decodedToken, verificationError)
             THEN /\ Respond(Unauthenticated(gReq.pathname, verificationError))
                  /\ UNCHANGED <<revokeCalls, gRevoke, exchNow, adminRequests>>
           ELSE IF ~isEmailVerified(decodedToken)
             THEN RevokeRefreshTokensCall(decodedToken.uid)
           ELSE /\ Respond(Verified(gReq.pathname, decodedToken))
                /\ UNCHANGED <<revokeCalls, gRevoke, exchNow, adminRequests>>
  /\ UNCHANGED <<firebaseAdmin, gReq, gInitError, verifyCalls, gChain, gFollow,
                 revokedUsers>>
  /\ UNCHANGED <<clock, jwkCache, accessTokenCache, vPc, vToken, vCheckRevoked, vNow,
                 vCode, vResult, vKeys, vUser, lookupNow, jwkLookups, jwkFetches,
                 sigVerifies, tokenExchanges>>
  /\ UNCHANGED <<varsMongo, varsKeys, varsAdmin, varsUpdate>>

\* The revokeRefreshTokens call settles, resolved or rejected: lines 164-169
\* or 187-196 of middleware.ts.  A rejection is caught and logged.
RevokeSettles_Propagate(outcome) ==
  /\ gRevoke' = [gRevoke EXCEPT !.state = outcome]
  /\ IF outcome = "rejected"
       THEN gPc' = "threw" /\ gResp' = NoResponse
       ELSE Respond(Unverified(gReq.pathname))

RevokeSettles(outcome) ==
  /\ gRevoke' = [gRevoke EXCEPT !.state = outcome]
  /\ Respond(Unverified(gReq.pathname))

\* #createSignedJwt settles in the revoke call (firebase-admin.ts lines
\* 304-306).
RevokeAssertionSigned(ok) ==
  /\ gPc = "revokeSign"
  /\ IF ok
       THEN /\ gPc' = "revokeExchange"
            /\ tokenExchanges' = 1
            /\ UNCHANGED <<gRevoke, gResp>>
       ELSE /\ RevokeSettles("rejected")
            /\ UNCHANGED tokenExchanges
  /\ UNCHANGED <<firebaseAdmin, gReq, gInitError, gDecoded, gError, verifyCalls,
                 revokeCalls, gChain, gFollow, revokedUsers>>
  /\ UNCHANGED <<clock, jwkCache, accessTokenCache, vPc, vToken, vCheckRevoked, vNow,
                 vCode, vResult, vKeys, vUser, lookupNow, exchNow, jwkLookups,
                 jwkFetches, sigVerifies, adminRequests>>
  /\ UNCHANGED <<varsMongo, varsKeys, varsAdmin, varsUpdate>>

\* The token endpoint answers in the revoke call (lines 317-327, 333).
RevokeTokenResponse(resp) ==
  /\ gPc = "revokeExchange"
  /\ IF resp.kind = "ok"
       THEN /\ accessTokenCache' = AccessTokenEntry(exchNow, resp)
            /\ gPc' = "revokePost"
            /\ adminRequests' = 1
            /\ UNCHANGED <<gRevoke, gResp>>
       ELSE /\ RevokeSettles("rejected")
            /\ UNCHANGED <<accessTokenCache, adminRequests>>
  /\ UNCHANGED <<firebaseAdmin, gReq, gInitError, gDecoded, gError, verifyCalls,
                 revokeCalls, gChain, gFollow, revokedUsers>>
  /\ UNCHANGED <<clock, jwkCache, vPc, vToken, vCheckRevoked, vNow, vCode, vResult,
                 vKeys, vUser, lookupNow, exchNow, jwkLookups, jwkFetches,
                 sigVerifies, tokenExchanges>>
  /\ UNCHANGED <<varsMongo, varsKeys, varsAdmin, varsUpdate>>

\* accounts:update answers (lines 343-359, then 594-595).  An accepted
\* request has set validSince of the user (line 592).
RevokeUpdateResponse(resp) ==
  /\ gPc = "revokePost"
  /\ RevokeSettles(IF resp.kind = "ok" THEN "resolved" ELSE "rejected")
  /\ revokedUsers' = IF resp.kind = "ok"
                       THEN revokedUsers \cup ({gRevoke.uid} \cap TrackedUsers)
                       ELSE revokedUsers
  /\ UNCHANGED <<firebaseAdmin, gReq, gInitError, gDecoded, gError, verifyCalls,
                 revokeCalls, gChain, gFollow>>
  /\ UNCHANGED varsVerify
  /\ UNCHANGED <<varsMongo, varsKeys, varsAdmin, varsUpdate>>

\* The response is sent; the locals of the request and of the calls it made
\* are gone.  firebaseAdmin and the module-level caches stay.  A client that
\* got a redirect (lines 37-40) holds its Location and its own credentials;
\* the clients that follow redirects are those with a credential of each
\* kind.
RequestCompletes ==
  /\ gPc = "responded"
  /\ gPc' = "idle"
  /\ gReq' = NoRequest
  /\ gInitError' = FALSE
  /\ gDecoded' = NoPayload
  /\ gError' = NoError
  /\ gResp' = NoResponse
  /\ verifyCalls' = 0
  /\ revokeCalls' = 0
  /\ gRevoke' = NoRevoke
  /\ IF /\ gResp.kind = "redirect"
        /\ Len(gChain) < MaxHops
        /\ gReq.authorization \in KindAuthorizations
       THEN /\ gChain' = Append(gChain, Verdict(gReq.pathname, gDecoded, gError))
            /\ gFollow' = [pending |-> TRUE, location |-> gResp.location.s,
                           authorization |-> gReq.authorization]
       ELSE /\ gChain' = <<>>
            /\ gFollow' = NoFollow
  /\ vPc' = "idle"
  /\ vToken' = NominalToken
  /\ vCheckRevoked' = FALSE
  /\ vNow' = 0
  /\ vCode' = "none"
  /\ vResult' = NoPayload
  /\ vKeys' = NoKeys
  /\ vUser' = NoLookup
  /\ lookupNow' = 0
  /\ exchNow' = 0
  /\ jwkLookups' = 0
  /\ jwkFetches' = 0
  /\ sigVerifies' = 0
  /\ tokenExchanges' = 0
  /\ adminRequests' = 0
  /\ UNCHANGED <<firebaseAdmin, revokedUsers, clock, jwkCache, accessTokenCache>>
  /\ UNCHANGED <<varsMongo, varsKeys, varsAdmin, varsUpdate>>

NextGate ==
  \/ \E req \in Requests, initOk \in BOOLEAN : Request(req, initOk)
  \/ \E initOk \in BOOLEAN : FollowRedirect(initOk)
  \/ \E resp \in JwkResponses : JwkResponse(resp)
  \/ SignatureChecked
  \/ VerificationSettles
  \/ \E ok \in BOOLEAN : RevokeAssertionSigned(ok)
  \/ \E resp \in TokenResponses : RevokeTokenResponse(resp)
  \/ \E resp \in UpdateResponses : RevokeUpdateResponse(resp)
  \/ RequestCompletes
  \/ Tick

(***************************************************************************)
(* Key lookups: actions                                                     *)
(***************************************************************************)
\* The locals of a verifyIdToken call.
varsVerifyCall == <<vPc, vToken, vCheckRevoked, vNow, vCode, vResult, vKeys, vUser,
                    lookupNow, exchNow, jwkLookups, jwkFetches, sigVerifies,
                    tokenExchanges, adminRequests>>

\* #fetchGooglePublicKeys up to its first pending await or its return (lines
\* 213-220): the cached map when the entry is fresh, else a fetch.
FetchGooglePublicKeys_Shared(c) ==
  /\ kPc[c] = "idle"
  /\ kCode' = [kCode EXCEPT ![c] = "none"]
  /\ kResp' = [kResp EXCEPT ![c] = NoJwkResponse]
  /\ IF CacheFresh(jwkCache, clock) \/ \E d \in Lookups : kPc[d] = "fetching"
       THEN /\ kPc' = [kPc EXCEPT ![c] = "returned"]
            /\ kKeys' = [kKeys EXCEPT ![c] = IF jwkCache.present THEN jwkCache.keys ELSE {}]
            /\ kFetches' = [kFetches EXCEPT ![c] = 0]
            /\ kNow' = [kNow EXCEPT ![c] = 0]
       ELSE /\ kPc' = [kPc EXCEPT ![c] = "fetching"]
            /\ kKeys' = [kKeys EXCEPT ![c] = {}]
            /\ kFetches' = [kFetches EXCEPT ![c] = 1]
            /\ kNow' = [kNow EXCEPT ![c] = clock]
  /\ UNCHANGED <<clock, jwkCache, accessTokenCache, varsVerifyCall>>
  /\ UNCHANGED <<varsMongo, varsGate, varsAdmin, varsUpdate>>

FetchGooglePublicKeys(c) ==
  /\ kPc[c] = "idle"
  /\ kCode' = [kCode EXCEPT ![c] = "none"]
  /\ kResp' = [kResp EXCEPT ![c] = NoJwkResponse]
  /\ IF CacheFresh(jwkCache, clock)
       THEN /\ kPc' = [kPc EXCEPT ![c] = "returned"]
            /\ kKeys' = [kKeys EXCEPT ![c] = jwkCache.keys]
            /\ kFetches' = [kFetches EXCEPT ![c] = 0]
            /\ kNow' = [kNow EXCEPT ![c] = 0]
       ELSE /\ kPc' = [kPc EXCEPT ![c] = "fetching"]
            /\ kKeys' = [kKeys EXCEPT ![c] = {}]
            /\ kFetches' = [kFetches EXCEPT ![c] = 1]
            /\ kNow' = [kNow EXCEPT ![c] = clock]
  /\ UNCHANGED <<clock, jwkCache, accessTokenCache, varsVerifyCall>>
  /\ UNCHANGED <<varsMongo, varsGate, varsAdmin, varsUpdate>>

\* The fetch of a lookup settles: lines 221-259.
KeysResponse_KeepGood(c, resp) ==
  /\ kPc[c] = "fetching"
  /\ kResp' = [kResp EXCEPT ![c] = resp]
  /\ kNow' = [kNow EXCEPT ![c] = 0]
  /\ LET r == ProcessJwkResponse(resp, kNow[c])
     IN /\ IF resp.kind = "ok" /\ resp.good # {}
             THEN jwkCache' = [present |-> TRUE, keys |-> resp.good,
                               expiry |-> kNow[c] + MaxAgeOf(resp.cacheControl)]
             ELSE UNCHANGED jwkCache
        /\ IF r.code = "ok"
             THEN /\ kPc' = [kPc EXCEPT ![c] = "returned"]
                  /\ kKeys' = [kKeys EXCEPT ![c] = r.entry.keys]
                  /\ UNCHANGED kCode
             ELSE /\ kPc' = [kPc EXCEPT ![c] = "thrown"]
                  /\ kCode' = [kCode EXCEPT ![c] = r.code]
                  /\ UNCHANGED kKeys
  /\ UNCHANGED <<clock, accessTokenCache, kFetches, varsVerifyCall>>
  /\ UNCHANGED <<varsMongo, varsGate, varsAdmin, varsUpdate>>

KeysResponse(c, resp) ==
  /\ kPc[c] = "fetching"
  /\ kResp' = [kResp EXCEPT ![c] = resp]
  /\ kNow' = [kNow EXCEPT ![c] = 0]
  /\ LET r == ProcessJwkResponse(resp, kNow[c])
     IN IF r.code = "ok"
          THEN /\ jwkCache' = r.entry
               /\ kPc' = [kPc EXCEPT ![c] = "returned"]
               /\ kKeys' = [kKeys EXCEPT ![c] = r.entry.keys]
               /\ UNCHANGED kCode
          ELSE /\ kPc' = [kPc EXCEPT ![c] = "thrown"]
               /\ kCode' = [kCode EXCEPT ![c] = r.code]
               /\ UNCHANGED <<jwkCache, kKeys>>
  /\ UNCHANGED <<clock, accessTokenCache, kFetches, varsVerifyCall>>
  /\ UNCHANGED <<varsMongo, varsGate, varsAdmin, varsUpdate>>

\* The caller takes the settled result of a lookup; its locals are gone.
LookupCompletes(c) ==
  /\ kPc[c] \in {"returned", "thrown"}
  /\ kPc' = [kPc EXCEPT ![c] = "idle"]
  /\ kNow' = [kNow EXCEPT ![c] = 0]
  /\ kFetches' = [kFetches EXCEPT ![c] = 0]
  /\ kKeys' = [kKeys EXCEPT ![c] = {}]
  /\ kCode' = [kCode EXCEPT ![c] = "none"]
  /\ kResp' = [kResp EXCEPT ![c] = NoJwkResponse]
  /\ UNCHANGED varsVerify
  /\ UNCHANGED <<varsMongo, varsGate, varsAdmin, varsUpdate>>

NextKeys ==
  \/ \E c \in Lookups : FetchGooglePublicKeys(c)
  \/ \E c \in Lookups, resp \in JwkResponses : KeysResponse(c, resp)
  \/ \E c \in Lookups : LookupCompletes(c)
  \/ Tick

(***************************************************************************)
(* Custom claims: values                                                    *)
(***************************************************************************)
\* Lines 598-604.
RESERVED_CLAIMS ==
  {"acr", "amr", "at_hash", "aud", "auth_time", "azp", "cnf", "c_hash", "exp",
   "firebase", "iat", "iss", "jti", "nbf", "nonce", "sub", "email",
   "email_verified", "phone_number", "name", "picture", "given_name",
   "family_name", "middle_name", "nickname", "preferred_username", "profile",
   "zoneinfo", "locale", "address", "gender", "birthdate", "updated_at"}

\* Line 607.
MAX_CLAIMS_PAYLOAD_SIZE == 1000

\* A string value of a claim: n repetitions of the character with code
\* point cp.  None of the characters used is escaped by JSON.stringify.
Repeat(cp, n) == [cp |-> cp, n |-> n]

\* A claims object: its own enumerable properties in insertion order.
Obj(props) == [t |-> "object", props |-> props]

Prop(key, value) == [key |-> key, value |-> value]

\* Bytes TextEncoder.encode (UTF-8) produces for one character.
Utf8Bytes(cp) ==
  IF cp < 128 THEN 1 ELSE IF cp < 2048 THEN 2 ELSE IF cp < 65536 THEN 3 ELSE 4

\* Line 638 applied to the JSON text of a string value: two quotes and the
\* encoded characters.
StringBytes(v) == 2 + v.n * Utf8Bytes(v.cp)

RECURSIVE PropsBytes(_)
\* Bytes of the members of the JSON text of an object: "key":value, joined
\* by commas.
PropsBytes(props) ==
  IF props = <<>> THEN 0
  ELSE (2 + Len(Head(props).key)) + 1 + StringBytes(Head(props).value)
       + (IF Len(props) > 1 THEN 1 ELSE 0) + PropsBytes(Tail(props))

\* Lines 622-626.
claimsToSet(claims) ==
  IF claims = Null \/ Len(claims.props) = 0 THEN Obj(<<>>) ELSE claims

\* Lines 635 and 638: byte length of JSON.stringify(claimsToSet).
payloadSizeBytes(claims) == 2 + PropsBytes(claimsToSet(claims).props)

\* Lines 628-632: some key of the claims is reserved.
HasReservedKey_FirstOnly(claims) ==
  /\ claims # Null
  /\ Len(claims.props) > 0
  /\ claims.props[1].key \in RESERVED_CLAIMS
HasReservedKey(claims) ==
  /\ claims # Null
  /\ \E i \in 1..Len(claims.props) : claims.props[i].key \in RESERVED_CLAIMS

\* Lines 620-644: the code setCustomUserClaims throws before any await, or
\* "none".
ClaimsError(claims) ==
  IF HasReservedKey(claims) THEN "invalid-claims"
  ELSE IF payloadSizeBytes(claims) > MAX_CLAIMS_PAYLOAD_SIZE THEN "claims-too-large"
  ELSE "none"

\* Claims arguments of the calls: null, the empty object, a small object, a
\* reserved key alone, after another key and in another case, values that
\* bring the JSON text to 1000 and to 1001 bytes, a value of 495 two-byte
\* characters (506 characters, 1001 bytes), and a reserved key with a value
\* over the limit.
ClaimsArguments ==
  {Null,
   Obj(<<>>),
   Obj(<<Prop("role", Repeat(97, 5))>>),
   Obj(<<Prop("aud", Repeat(97, 1))>>),
   Obj(<<Prop("role", Repeat(97, 5)), Prop("aud", Repeat(97, 1))>>),
   Obj(<<Prop("Aud", Repeat(97, 1))>>),
   Obj(<<Prop("role", Repeat(97, 989))>>),
   Obj(<<Prop("role", Repeat(97, 990))>>),
   Obj(<<Prop("role", Repeat(233, 495))>>),
   Obj(<<Prop("aud", Repeat(97, 1000))>>)}

(***************************************************************************)
(* Custom claims and the access token: actions                              *)
(***************************************************************************)
\* Line 300: the cached AccessToken is returned.
AccessTokenFresh_Never(n) == FALSE
AccessTokenFresh(n) == CacheFresh(accessTokenCache, n)

\* The AccessToken a call holds: the entry, whether it came from the cache,
\* and the instant the token endpoint stops honouring it.
HeldToken(entry, cached, validUntil) ==
  [got |-> TRUE, expiry |-> entry.expiry, cached |-> cached, validUntil |-> validUntil]

\* setCustomUserClaims up to its first pending await or its throw: lines
\* 620-651, then #makeFirebaseAdminApiRequest line 330, #fetchAccessToken
\* lines 299-304 and, on a cache hit, line 333.
SetCustomUserClaims(c, claims) ==
  /\ aPc[c] = "idle"
  /\ aClaims' = [aClaims EXCEPT ![c] = claims]
  /\ aResp' = [aResp EXCEPT ![c] = NoTokenResponse]
  /\ aExchanges' = [aExchanges EXCEPT ![c] = 0]
  /\ IF ClaimsError(claims) # "none"
       THEN /\ aPc' = [aPc EXCEPT ![c] = "thrown"]
            /\ aCode' = [aCode EXCEPT ![c] = ClaimsError(claims)]
            /\ aPosts' = [aPosts EXCEPT ![c] = 0]
            /\ aNow' = [aNow EXCEPT ![c] = 0]
            /\ aToken' = [aToken EXCEPT ![c] = NoToken]
       ELSE IF AccessTokenFresh(clock)
         THEN /\ aPc' = [aPc EXCEPT ![c] = "post"]
              /\ aPosts' = [aPosts EXCEPT ![c] = 1]
              /\ aToken' = [aToken EXCEPT ![c] =
                              HeldToken(accessTokenCache, TRUE, tokenValidUntil)]
              /\ aNow' = [aNow EXCEPT ![c] = 0]
              /\ aCode' = [aCode EXCEPT ![c] = "none"]
         ELSE /\ aPc' = [aPc EXCEPT ![c] = "signAssertion"]
              /\ aPosts' = [aPosts EXCEPT ![c] = 0]
              /\ aToken' = [aToken EXCEPT ![c] = NoToken]
              /\ aNow' = [aNow EXCEPT ![c] = clock]
              /\ aCode' = [aCode EXCEPT ![c] = "none"]
  /\ UNCHANGED <<tokenValidUntil, varsVerify>>
  /\ UNCHANGED <<varsMongo, varsGate, varsKeys, varsUpdate>>

\* #createSignedJwt settles (lines 287-295), then line 306.
AdminAssertionSigned(c, ok) ==
  /\ aPc[c] = "signAssertion"
  /\ IF ok
       THEN /\ aPc' = [aPc EXCEPT ![c] = "tokenExchange"]
            /\ aExchanges' = [aExchanges EXCEPT ![c] = 1]
            /\ UNCHANGED <<aCode, aNow>>
       ELSE /\ aPc' = [aPc EXCEPT ![c] = "thrown"]
            /\ aCode' = [aCode EXCEPT ![c] = "assertion-failed"]
            /\ aNow' = [aNow EXCEPT ![c] = 0]
            /\ UNCHANGED aExchanges
  /\ UNCHANGED <<aClaims, aPosts, aToken, aResp, tokenValidUntil, varsVerify>>
  /\ UNCHANGED <<varsMongo, varsGate, varsKeys, varsUpdate>>

\* The token endpoint answers: lines 317-327, then line 333.  minted is the
\* instant, not before the call's now, at which the endpoint issued the token.
AdminTokenResponse(c, resp, minted) ==
  /\ aPc[c] = "tokenExchange"
  /\ minted \in aNow[c]..clock
  /\ aResp' = [aResp EXCEPT ![c] = resp]
  /\ aNow' = [aNow EXCEPT ![c] = 0]
  /\ IF resp.kind = "ok"
       THEN /\ accessTokenCache' = AccessTokenEntry(aNow[c], resp)
            /\ tokenValidUntil' = minted + resp.expires_in
            /\ aPc' = [aPc EXCEPT ![c] = "post"]
            /\ aPosts' = [aPosts EXCEPT ![c] = 1]
            /\ aToken' = [aToken EXCEPT ![c] =
                            HeldToken(AccessTokenEntry(aNow[c], resp), FALSE,
                                      minted + resp.expires_in)]
            /\ UNCHANGED aCode
       ELSE /\ minted = aNow[c]
            /\ aPc' = [aPc EXCEPT ![c] = "thrown"]
            /\ aCode' = [aCode EXCEPT ![c] =
                           IF resp.kind = "http-error" THEN "token-fetch-failed"
                           ELSE "exchange-failed"]
            /\ UNCHANGED <<accessTokenCache, tokenValidUntil, aPosts, aToken>>
  /\ UNCHANGED <<clock, jwkCache, aClaims, aExchanges, varsVerifyCall>>
  /\ UNCHANGED <<varsMongo, varsGate, varsKeys, varsUpdate>>

\* accounts:update answers (lines 343-359, then line 651).
AdminUpdateResponse(c, resp) ==
  /\ aPc[c] = "post"
  /\ IF resp.kind = "ok"
       THEN /\ aPc' = [aPc EXCEPT ![c] = "resolved"]
            /\ UNCHANGED aCode
       ELSE /\ aPc' = [aPc EXCEPT ![c] = "thrown"]
            /\ aCode' = [aCode EXCEPT ![c] = "request-failed"]
  /\ UNCHANGED <<aClaims, aNow, aExchanges, aPosts, aToken, aResp, tokenValidUntil,
                 varsVerify>>
  /\ UNCHANGED <<varsMongo, varsGate, varsKeys, varsUpdate>>

\* The caller takes the settled result of a call; its locals are gone.
AdminCallCompletes(c) ==
  /\ aPc[c] \in {"resolved", "thrown"}
  /\ aPc' = [aPc EXCEPT ![c] = "idle"]
  /\ aClaims' = [aClaims EXCEPT ![c] = Null]
  /\ aNow' = [aNow EXCEPT ![c] = 0]
  /\ aExchanges' = [aExchanges EXCEPT ![c] = 0]
  /\ aPosts' = [aPosts EXCEPT ![c] = 0]
  /\ aToken' = [aToken EXCEPT ![c] = NoToken]
  /\ aCode' = [aCode EXCEPT ![c] = "none"]
  /\ aResp' = [aResp EXCEPT ![c] = NoTokenResponse]
  /\ UNCHANGED <<tokenValidUntil, varsVerify>>
  /\ UNCHANGED <<varsMongo, varsGate, varsKeys, varsUpdate>>

NextAdmin ==
  \/ \E c \in AdminCalls, claims \in ClaimsArguments : SetCustomUserClaims(c, claims)
  \/ \E c \in AdminCalls, ok \in BOOLEAN : AdminAssertionSigned(c, ok)
  \/ \E c \in AdminCalls, resp \in TokenResponses, minted \in 0..MaxNow :
       AdminTokenResponse(c, resp, minted)
  \/ \E c \in AdminCalls, resp \in UpdateResponses : AdminUpdateResponse(c, resp)
  \/ \E c \in AdminCalls : AdminCallCompletes(c)
  \/ Tick

(***************************************************************************)
(* User update: values                                                      *)
(***************************************************************************)
\* Properties arguments of UpdateUserPayload (lines 100-108): a property is
\* undefined (absent or set to undefined) or holds a value of its type;
\* displayName, phoneNumber and photoURL can also be null.
PropertiesArguments ==
  [displayName : {Undef, Null, Str("Ann")},
   email : {Undef, Str("a@b.c")},
   emailVerified : {Undef, Bool(TRUE)},
   password : {Undef, Str("secret")},
   phoneNumber : {Undef, Null, Str("+1555")},
   photoURL : {Undef, Null, Str("http://p")},
   disabled : {Undef, Bool(FALSE)}]

\* Lines 549-555: the properties in the order of the spreads, each with the
\* key it gets in the payload.
PayloadKeys ==
  <<[property |-> "displayName", key |-> "displayName"],
    [property |-> "email", key |-> "email"],
    [property |-> "emailVerified", key |-> "emailVerified"],
    [property |-> "password", key |-> "password"],
    [property |-> "phoneNumber", key |-> "phoneNumber"],
    [property |-> "photoURL", key |-> "photoUrl"],
    [property |-> "disabled", key |-> "disableUser"]>>

\* Lines 560-562 and 567-569: the properties a null deletes, each with its
\* tag and the payload key removed.
DeletableAttributes ==
  <<[property |-> "displayName", tag |-> "DISPLAY_NAME", key |-> "displayName"],
    [property |-> "phoneNumber", tag |-> "PHONE_NUMBER", key |-> "phoneNumber"],
    [property |-> "photoURL", tag |-> "PHOTO_URL", key |-> "photoUrl"]>>

\* Lines 546-556: localId and every property that is not undefined.
SpreadPayload(uid, properties) ==
  LET set == {i \in 1..Len(PayloadKeys) : properties[PayloadKeys[i].property] # Undef}
      keyOf == [i \in set |-> PayloadKeys[i].key]
  IN [k \in {"localId"} \cup {keyOf[i] : i \in set} |->
        IF k = "localId" THEN Str(uid)
        ELSE properties[PayloadKeys[CHOOSE i \in set : keyOf[i] = k].property]]

RECURSIVE DeleteTags(_, _)
\* Lines 558-562: the tags pushed, in order.
DeleteTags(properties, i) ==
  IF i > Len(DeletableAttributes) THEN <<>>
  ELSE (IF properties[DeletableAttributes[i].property] = Null
          THEN <<DeletableAttributes[i].tag>> ELSE <<>>)
       \o DeleteTags(properties, i + 1)

\* Lines 567-569: delete payload[key] for every property that is null.
RemoveDeleted_Keep(payload, properties) == payload
RemoveDeleted(payload, properties) ==
  LET gone == {DeletableAttributes[i].key : i \in
                 {j \in 1..Len(DeletableAttributes) :
                    properties[DeletableAttributes[j].property] = Null}}
  IN [k \in (DOMAIN payload) \ gone |-> payload[k]]

\* Lines 546-570: the payload of the request.
BuildPayload(uid, properties) ==
  LET tags == DeleteTags(properties, 1)
      spread == SpreadPayload(uid, properties)
  IN IF Len(tags) > 0
       THEN [k \in (DOMAIN RemoveDeleted(spread, properties)) \cup {"deleteAttribute"} |->
               IF k = "deleteAttribute" THEN tags
               ELSE RemoveDeleted(spread, properties)[k]]
       ELSE spread

\* Lines 573-574: nothing to update and nothing to delete.
NothingToUpdate(payload) ==
  /\ (DOMAIN payload) \ {"localId", "deleteAttribute"} = {}
  /\ "deleteAttribute" \notin DOMAIN payload

(***************************************************************************)
(* User update: actions                                                     *)
(***************************************************************************)
\* updateUser up to its first pending await or its throw: lines 540-579,
\* then #makeFirebaseAdminApiRequest line 330, #fetchAccessToken lines
\* 299-304 and, on a cache hit, line 333.
UpdateUser(uid, properties) ==
  /\ uPc = "idle"
  /\ uProperties' = properties
  /\ uPayload' = [built |-> TRUE, body |-> BuildPayload(uid, properties)]
  /\ uExchanges' = 0
  /\ IF NothingToUpdate(BuildPayload(uid, properties))
       THEN /\ uPc' = "thrown"
            /\ uCode' = "invalid-argument"
            /\ uPosts' = 0
            /\ uNow' = 0
       ELSE IF AccessTokenFresh(clock)
         THEN /\ uPc' = "post"
              /\ uPosts' = 1
              /\ uNow' = 0
              /\ uCode' = "none"
         ELSE /\ uPc' = "signAssertion"
              /\ uPosts' = 0
              /\ uNow' = clock
              /\ uCode' = "none"
  /\ UNCHANGED varsVerify
  /\ UNCHANGED <<varsMongo, varsGate, varsKeys, varsAdmin>>

\* #createSignedJwt settles (lines 287-295), then line 306.
UpdateAssertionSigned(ok) ==
  /\ uPc = "signAssertion"
  /\ IF ok
       THEN /\ uPc' = "tokenExchange"
            /\ uExchanges' = 1
            /\ UNCHANGED <<uCode, uNow>>
       ELSE /\ uPc' = "thrown"
            /\ uCode' = "assertion-failed"
            /\ uNow' = 0
            /\ UNCHANGED uExchanges
  /\ UNCHANGED <<uProperties, uPayload, uPosts, varsVerify>>
  /\ UNCHANGED <<varsMongo, varsGate, varsKeys, varsAdmin>>

\* The token endpoint answers: lines 317-327, then line 333.
UpdateTokenResponse(resp) ==
  /\ uPc = "tokenExchange"
  /\ uNow' = 0
  /\ IF resp.kind = "ok"
       THEN /\ accessTokenCache' = AccessTokenEntry(uNow, resp)
            /\ uPc' = "post"
            /\ uPosts' = 1
            /\ UNCHANGED uCode
       ELSE /\ uPc' = "thrown"
            /\ uCode' = IF resp.kind = "http-error" THEN "token-fetch-failed"
                        ELSE "exchange-failed"
            /\ UNCHANGED <<accessTokenCache, uPosts>>
  /\ UNCHANGED <<clock, jwkCache, uProperties, uPayload, uExchanges, varsVerifyCall>>
  /\ UNCHANGED <<varsMongo, varsGate, varsKeys, varsAdmin>>

\* accounts:update answers (lines 343-359, then line 580).
UpdateUserResponse(resp) ==
  /\ uPc = "post"
  /\ IF resp.kind = "ok"
       THEN /\ uPc' = "resolved"
            /\ UNCHANGED uCode
       ELSE /\ uPc' = "thrown"
            /\ uCode' = "request-failed"
  /\ UNCHANGED <<uProperties, uPayload, uNow, uExchanges, uPosts, varsVerify>>
  /\ UNCHANGED <<varsMongo, varsGate, varsKeys, varsAdmin>>

\* The caller takes the settled result of the call; its locals are gone.
UpdateUserCompletes ==
  /\ uPc \in {"resolved", "thrown"}
  /\ uPc' = "idle"
  /\ uProperties' = NoProperties
  /\ uPayload' = NoPayloadBody
  /\ uNow' = 0
  /\ uExchanges' = 0
  /\ uPosts' = 0
  /\ uCode' = "none"
  /\ UNCHANGED varsVerify
  /\ UNCHANGED <<varsMongo, varsGate, varsKeys, varsAdmin>>

NextUpdate ==
  \/ \E properties \in PropertiesArguments : UpdateUser("u1", properties)
  \/ \E ok \in BOOLEAN : UpdateAssertionSigned(ok)
  \/ \E resp \in TokenResponses : UpdateTokenResponse(resp)
  \/ \E resp \in UpdateResponses : UpdateUserResponse(resp)
  \/ UpdateUserCompletes
  \/ Tick

SpecMongo == Init /\ [][NextMongo]_vars

SpecVerify == Init /\ [][NextVerify]_vars

SpecGate == Init /\ [][NextGate]_vars

SpecKeys == Init /\ [][NextKeys]_vars

SpecAdmin == Init /\ [][NextAdmin]_vars

SpecUpdate == Init /\ [][NextUpdate]_vars


(***************************************************************************)
(* Connection proxy: properties                                             *)
(***************************************************************************)
Arrived == {c \in Calls : callPc[c] # "idle"}

\* C1: on a fresh instance, as long as every findOne call made so far arrived
\* before the first connect attempt settled, client.connect() has been
\* invoked exactly once, whatever the number of calls and their interleaving.
C1_ConcurrentCallsConnectOnce ==
  (Arrived # {} /\ \A c \in Arrived : callEpoch[c] = 0) => connectCalls = 1

\* C1 witness: MaxCalls calls all arrived before the attempt settled, the
\* attempt has settled and every call has finished its query.
C1_Witness ==
  /\ \A c \in Calls : callEpoch[c] = 0 /\ callPc[c] = "done"
  /\ connectCalls = 1

\* C2: at most one client.connect() attempt is started and not yet settled.
C2_AtMostOneInFlight == Cardinality(InFlight) <= 1

\* C2 witness: after a failed attempt a second attempt is in flight and
\* another call is waiting on its promise.
C2_Witness ==
  /\ Cardinality(InFlight) = 1
  /\ \E a \in Attempts : attemptState[a] = "rejected"
  /\ \E c \in Calls : callPc[c] = "awaitExisting" /\ callWaitsOn[c] \in InFlight

\* The most recent connect attempt has failed and nothing was started since.
LastAttemptFailed == connectCalls > 0 /\ attemptState[connectCalls] = "rejected"

\* C3: once a connect attempt has failed (client.connect() rejected or
\* client.db() threw), dbInstance and connectPromise are both null; the next
\* findOne call starts a new attempt rather than awaiting the rejected
\* promise; and a call whose own attempt succeeded does not fail on the
\* connection.
C3_FailureClearsAndRetries ==
  /\ [](LastAttemptFailed => dbInstance = NoDb /\ connectPromise = NoPromise)
  /\ [][\A c \in Calls :
          (LastAttemptFailed /\ callPc[c] = "idle" /\ callPc'[c] # "idle")
            => /\ callStarted'[c] = connectCalls + 1
               /\ attemptState'[connectCalls + 1] = "pending"
               /\ callPc'[c] = "awaitOwn"]_vars
  /\ [](\A c \in Calls :
          (callStarted[c] # NoPromise /\ attemptState[callStarted[c]] = "resolved")
            => /\ callPc[c] \in {"awaitOwn", "connected", "querying", "done", "failed"}
               /\ callPc[c] = "failed" => callError[c] = "driver-error")

\* C3 witness: the first attempt failed, a later call started the second
\* attempt, which succeeded, and that call returned its result.
C3_Witness ==
  \E c \in Calls :
    /\ attemptState[1] = "rejected"
    /\ callStarted[c] = 2
    /\ attemptState[2] = "resolved"
    /\ callPc[c] = "done"

(***************************************************************************)
(* Token verifier: properties                                               *)
(***************************************************************************)
\* The stages of the verification pipeline in the order the specification
\* gives them.
StageOrder ==
  <<"format", "algorithm", "kid", "audience", "issuer", "subject", "auth_time",
    "iat-missing", "iat-future", "exp-missing", "expired", "key-lookup",
    "signature", "revocation">>

StageIndex(stage) == CHOOSE i \in 1..Len(StageOrder) : StageOrder[i] = stage

\* The stage an error code belongs to.
StageOfCode(code) ==
  CASE code \in {"invalid-argument", "invalid-id-token"} -> "format"
    [] code = "invalid-algorithm" -> "algorithm"
    [] code = "missing-kid" -> "kid"
    [] code = "invalid-audience" -> "audience"
    [] code = "invalid-issuer" -> "issuer"
    [] code = "invalid-subject" -> "subject"
    [] code = "missing-auth-time" -> "auth_time"
    [] code = "missing-iat" -> "iat-missing"
    [] code = "iat-in-future" -> "iat-future"
    [] code = "missing-expiration" -> "exp-missing"
    [] code = "token-expired" -> "expired"
    [] code \in {"jwk-fetch-failed", "invalid-jwk", "no-valid-jwks",
                 "jwk-processing-error", "no-matching-kid"} -> "key-lookup"
    [] code \in {"invalid-id-token-format", "signature-verification-failed",
                 "invalid-signature"} -> "signature"
    [] code \in {"user-not-found", "id-token-revoked",
                 "invalid-revocation-format"} -> "revocation"

HasKid == vToken.kid.t = "string" /\ vToken.kid.s # ""

\* The token of the current call violates the stage, by the stage's
\* description in the specification.
StageViolated(stage) ==
  CASE stage = "format" -> vToken.fmt # "ok"
    [] stage = "algorithm" -> vToken.alg # Str("RS256")
    [] stage = "kid" -> ~HasKid
    [] stage = "audience" -> vToken.aud # Str("proj")
    [] stage = "issuer" -> vToken.iss # Str("https://securetoken.google.com/proj")
    [] stage = "subject" -> ~(/\ vToken.sub.t = "string"
                              /\ Len(vToken.sub.s) >= 1
                              /\ Len(vToken.sub.s) <= 128)
    [] stage = "auth_time" -> vCheckRevoked /\ vToken.auth_time.t # "number"
    [] stage = "iat-missing" -> vToken.iat.t # "number"
    [] stage = "iat-future" -> vToken.iat.t = "number" /\ vToken.iat.n > vNow + 300
    [] stage = "exp-missing" -> vToken.exp.t # "number"
    [] stage = "expired" -> vToken.exp.t = "number" /\ vToken.exp.n <= vNow
    [] stage = "key-lookup" -> ~(vKeys.got /\ HasKid /\ vToken.kid.s \in vKeys.keys)
    [] stage = "signature" -> ~(HasKid /\ vToken.sig = vToken.kid.s)
    [] stage = "revocation" -> vCheckRevoked /\ vUser.got

NoStageViolatedBefore(stage) ==
  \A j \in 1..(StageIndex(stage) - 1) : ~StageViolated(StageOrder[j])

Finished == vPc \in {"returned", "thrown"}

\* C4: whenever verifyIdToken returns claims, the token's alg is RS256, its
\* kid is in the key set used, aud is the project id, iss is the project's
\* securetoken issuer, sub is a string of 1..128 characters, iat <= now + 300,
\* exp > now, and crypto.subtle.verify was run and the signature is the one
\* made with the key of that kid.
C4_NoFalseAccept ==
  vPc = "returned" =>
    /\ vToken.fmt = "ok"
    /\ vToken.alg = Str("RS256")
    /\ HasKid /\ vKeys.got /\ vToken.kid.s \in vKeys.keys
    /\ vToken.aud = Str("proj")
    /\ vToken.iss = Str("https://securetoken.google.com/proj")
    /\ vToken.sub.t = "string" /\ Len(vToken.sub.s) >= 1 /\ Len(vToken.sub.s) <= 128
    /\ vToken.iat.t = "number" /\ vToken.iat.n <= vNow + 300
    /\ vToken.exp.t = "number" /\ vToken.exp.n > vNow
    /\ sigVerifies = 1 /\ vToken.sig = vToken.kid.s

\* C4 witness: claims returned for a token at every accepted boundary: a
\* 128-character sub, iat = now + 300, exp = now + 1.
C4_Witness ==
  /\ vPc = "returned"
  /\ Len(vToken.sub.s) = 128
  /\ vToken.iat.n = vNow + 300
  /\ vToken.exp.n = vNow + 1

\* C5: when verifyIdToken throws, the code is that of the earliest stage, in
\* the order format, algorithm, kid, audience, issuer, subject, auth_time,
\* iat missing, iat in future, exp missing, expired, key lookup, signature,
\* revocation, that the token violates, and no later stage has run: no key
\* lookup before the key-lookup stage, no signature verification before the
\* signature stage, no token exchange or Admin API request before the
\* revocation stage.
C5_OrderedPipeline ==
  vPc = "thrown" =>
    LET stage == StageOfCode(vCode)
        k == StageIndex(stage)
    IN /\ StageViolated(stage)
       /\ NoStageViolatedBefore(stage)
       /\ k < StageIndex("key-lookup") => jwkLookups = 0 /\ jwkFetches = 0
       /\ k < StageIndex("signature") => sigVerifies = 0
       /\ k < StageIndex("revocation") =>
            tokenExchanges = 0 /\ adminRequests = 0 /\ ~vUser.got

\* C5 witness: a token with a wrong issuer that is also expired and carries a
\* bad signature fails with invalid-issuer.
C5_Witness ==
  /\ vPc = "thrown"
  /\ vCode = "invalid-issuer"
  /\ vToken.exp.t = "number" /\ vToken.exp.n <= vNow
  /\ jwkLookups = 0

\* C6 as stated: every token with exp <= now fails with token-expired.
C6_ExpiredAlwaysTokenExpired ==
  (vPc # "idle" /\ vToken.fmt = "ok" /\ StageViolated("expired"))
    => vPc = "thrown" /\ vCode = "token-expired"

\* C6: every token with exp <= now fails before any key lookup or signature
\* verification, whatever its signature; the code is token-expired exactly
\* when the token violates no earlier stage of the pipeline.
C6_ExpiredNeverVerifies ==
  (vPc # "idle" /\ vToken.fmt = "ok" /\ StageViolated("expired"))
    => /\ vPc = "thrown"
       /\ jwkLookups = 0 /\ sigVerifies = 0
       /\ vCode = "token-expired" <=> NoStageViolatedBefore("expired")

\* C6 witness: a token with exp = now and a signature made with another key
\* fails with token-expired.
C6_Witness ==
  /\ vPc = "thrown"
  /\ vCode = "token-expired"
  /\ vToken.exp.n = vNow
  /\ vToken.sig # vToken.kid.s

\* C7 as stated: every token whose aud is not the project id fails with
\* invalid-audience and without a key lookup.
C7_WrongAudienceAlwaysInvalidAudience ==
  (vPc # "idle" /\ vToken.fmt = "ok" /\ StageViolated("audience"))
    => /\ vPc = "thrown" /\ vCode = "invalid-audience"
       /\ jwkLookups = 0 /\ jwkFetches = 0 /\ sigVerifies = 0

\* C7: every token whose aud is not the project id fails before signature
\* verification and without any key lookup or key fetch; the code is
\* invalid-audience exactly when the token decodes, has alg RS256 and a kid.
C7_WrongAudienceNoKeyFetch ==
  (vPc # "idle" /\ vToken.fmt = "ok" /\ StageViolated("audience"))
    => /\ vPc = "thrown"
       /\ jwkLookups = 0 /\ jwkFetches = 0 /\ sigVerifies = 0
       /\ vCode = "invalid-audience" <=> NoStageViolatedBefore("audience")

\* C7 witness: a token for another audience, correctly signed by a known
\* key, fails with invalid-audience and no key lookup.
C7_Witness ==
  /\ vPc = "thrown"
  /\ vCode = "invalid-audience"
  /\ vToken.sig = "k1" /\ vToken.kid = Str("k1")
  /\ jwkLookups = 0

\* C8: with checkRevoked = false, a token that passes every structural and
\* time check, whose kid is in the key map the lookup gave and whose
\* signature was made with that key, is never rejected, and the claims
\* returned have uid = sub, whatever the token's own uid.
C8_UidIsSub ==
  (/\ vPc # "idle" /\ ~vCheckRevoked
   /\ NoStageViolatedBefore("key-lookup")
   /\ ~StageViolated("key-lookup")
   /\ ~StageViolated("signature"))
    => /\ vPc \in {"sigCheck", "returned"}
       /\ vPc = "returned" => vResult.uid = vToken.sub /\ vResult.sub = vToken.sub

\* C8 witness: a token whose uid differs from its sub, verified against keys
\* served from the key cache, returns claims with uid = sub.
C8_Witness ==
  /\ vPc = "returned" /\ ~vCheckRevoked
  /\ jwkLookups = 1 /\ jwkFetches = 0
  /\ vToken.uid = Str("zz")
  /\ vResult.uid = vToken.sub

\* C9: with checkRevoked = true, when #getUserRecord obtains no record
\* (empty lookup result, failed token exchange, failed Admin API request)
\* verifyIdToken throws user-not-found; it returns claims only with a record.
C9_NoRecordNoClaims ==
  /\ (vCheckRevoked /\ vUser.got /\ ~vUser.rec.present)
       => vPc = "thrown" /\ vCode = "user-not-found"
  /\ (vCheckRevoked /\ vPc = "returned") => vUser.got /\ vUser.rec.present

\* C9 witness: the access-token exchange failed and the call ended in
\* user-not-found.
C9_Witness ==
  /\ vCheckRevoked /\ vPc = "thrown" /\ vCode = "user-not-found"
  /\ vUser.got /\ vUser.via = "exchange-failed"
  /\ tokenExchanges = 1 /\ adminRequests = 0

\* C10: with checkRevoked = true and a user record found: when
\* tokensValidAfterTime is present and parses, the call fails with
\* id-token-revoked exactly when auth_time is below it; when it is present
\* and does not parse, the call fails with invalid-revocation-format; when it
\* is absent the token is accepted.
C10_RevocationCases ==
  (Finished /\ vCheckRevoked /\ vUser.got /\ vUser.rec.present) =>
    LET v == vUser.rec.tokensValidAfterTime
    IN IF v = Undef THEN vPc = "returned"
       ELSE IF ParseInt(v.s).nan
         THEN vPc = "thrown" /\ vCode = "invalid-revocation-format"
         ELSE IF vToken.auth_time.n < ParseInt(v.s).n
           THEN vPc = "thrown" /\ vCode = "id-token-revoked"
           ELSE vPc = "returned"

(***************************************************************************)
(* Request gate: properties                                                 *)
(***************************************************************************)
Responded == gPc = "responded"

\* The routes named by the gate's contract.
ExcludedPaths == {"/api/lemon", "/api/hc", "/api/hello"}

AuthFlowPages == {"/login", "/signup", "/reset", "/forget-pass", "/reset-pass",
                  "/verify-email", "/recover-email"}

Gated == gReq.pathname \notin ExcludedPaths /\ gReq.pathname # "/auth/action"

ApiRoute == Gated /\ StartsWith(gReq.pathname, "/api")

PageRoute == Gated /\ ~StartsWith(gReq.pathname, "/api")

\* verifyIdToken was called for the request and returned the claims.
TokenVerified == verifyCalls = 1 /\ vPc = "returned"

EmailVerified == vResult.email_verified = Bool(TRUE)

RevokeSettled == gRevoke.state \in {"resolved", "rejected"}

\* Terminal state of a response.
Outcome(resp) ==
  IF resp.kind = "next" THEN "ALLOW"
  ELSE IF resp.kind = "redirect" THEN "REDIRECT"
  ELSE IF resp.kind = "json" /\ resp.status = 401 THEN "DENY-401"
  ELSE IF resp.kind = "json" /\ resp.status = 403 THEN "DENY-403"
  ELSE IF resp.kind = "json" /\ resp.status = 500 THEN "ERROR-500"
  ELSE "OTHER"

RedirectsTo(path) == gResp.kind = "redirect" /\ gResp.location = Str(path)

AllowsUnchanged == gResp.kind = "next" /\ gResp.xuid = Undef /\ gResp.xiat = Undef

\* C11: an API-route request (Firebase Admin initialized) whose token is
\* missing or fails verification is answered 401 when verification failed
\* on expiry or revocation and 403 for every other failure; an expired token
\* gets 401.
C11_ApiUnauthenticatedStatus ==
  (Responded /\ ApiRoute /\ ~gInitError /\ ~TokenVerified) =>
    IF verifyCalls = 1 /\ vCode \in {"token-expired", "id-token-revoked"}
      THEN Outcome(gResp) = "DENY-401"
      ELSE Outcome(gResp) = "DENY-403"

C13_PageUnauthenticated ==
  /\ \A p \in AuthFlowPages \cup {"/try"} :
       Unauthenticated(p, PlainError("No token provided")) = res
  /\ (Responded /\ PageRoute /\ ~TokenVerified) =>
       IF gReq.pathname \in AuthFlowPages \cup {"/try"}
         THEN AllowsUnchanged
         ELSE RedirectsTo("/login")

\* C13 witness: a request to /try whose token failed verification is allowed.
C13_Witness ==
  /\ Responded /\ gReq.pathname = "/try"
  /\ verifyCalls = 1 /\ vPc = "thrown"
  /\ AllowsUnchanged

\* C14: for a page-route request whose token verifies with email_verified
\* not true, revokeRefreshTokens is called exactly once and, once it has
\* settled either way, the request is allowed on an auth-flow page and
\* redirected to /login on any other page.
C14_PageUnverified ==
  /\ (PageRoute /\ gRevoke.state = "pending") => ~Responded
  /\ (Responded /\ PageRoute /\ TokenVerified /\ ~EmailVerified) =>
       /\ revokeCalls = 1
       /\ RevokeSettled
       /\ IF gReq.pathname \in AuthFlowPages
            THEN AllowsUnchanged
            ELSE RedirectsTo("/login")

\* C14 witness: a request to / with an unverified email is redirected to
\* /login after the revoke call was rejected.
C14_Witness ==
  /\ Responded /\ gReq.pathname = "/" /\ TokenVerified /\ ~EmailVerified
  /\ revokeCalls = 1 /\ gRevoke.state = "rejected"
  /\ RedirectsTo("/login")

\* C15 as stated: a page-route request with a verified token and verified
\* email is redirected to / on an auth-flow page and allowed on every other
\* page, without a revoke call.
C15_PageVerifiedAuthFlowOnly ==
  (Responded /\ PageRoute /\ TokenVerified /\ EmailVerified) =>
    /\ revokeCalls = 0
    /\ IF gReq.pathname \in AuthFlowPages
         THEN RedirectsTo("/")
         ELSE AllowsUnchanged

\* C15: a page-route request with a verified token and verified email is
\* redirected to / on an auth-flow page and on /try, and allowed on every
\* other page, without a revoke call.
C15_PageVerified ==
  (Responded /\ PageRoute /\ TokenVerified /\ EmailVerified) =>
    /\ revokeCalls = 0
    /\ IF gReq.pathname \in AuthFlowPages \cup {"/try"}
         THEN RedirectsTo("/")
         ELSE AllowsUnchanged

\* C15 witness: a verified user requesting /try is redirected to /.
C15_Witness ==
  /\ Responded /\ gReq.pathname = "/try" /\ TokenVerified /\ EmailVerified
  /\ RedirectsTo("/")

\* C16: a request to /api/lemon, /api/hc or /api/hello is allowed whatever
\* its Authorization header, without a verifyIdToken call, a key lookup, a
\* revoke call or a request to the token endpoint or the Admin API.
C16_ExcludedAlwaysAllowed ==
  /\ \A p \in ExcludedPaths : IsExcluded(p)
  /\ (gPc # "idle" /\ gReq.pathname \in ExcludedPaths) =>
       /\ Responded
       /\ AllowsUnchanged
       /\ verifyCalls = 0 /\ revokeCalls = 0
       /\ jwkLookups = 0 /\ sigVerifies = 0
       /\ tokenExchanges = 0 /\ adminRequests = 0

\* C16 witness: /api/hc is allowed with a Bearer token whose email is not
\* verified.
C16_Witness ==
  /\ Responded /\ gReq.pathname = "/api/hc"
  /\ gReq.authorization \in Bearer({[NominalToken EXCEPT !.email_verified = Bool(FALSE)]})
  /\ AllowsUnchanged

\* C17: every response the gate returns carries the Content-Security-Policy
\* header frame-ancestors 'self'.
C17_EveryResponseCarriesCsp ==
  Responded =>
    /\ gResp.csp # Undef
    /\ StartsWith(gResp.csp.s, "frame-ancestors 'self'")

C20_AdminApiOnlyForUnverified ==
  /\ verifyCalls = 1 => ~vCheckRevoked /\ vUser = NoLookup
  /\ revokeCalls <= 1
  /\ (tokenExchanges > 0 \/ adminRequests > 0) => revokeCalls = 1
  /\ Responded =>
       (revokeCalls = 1 <=> (Gated /\ TokenVerified /\ ~EmailVerified))

\* C20 witness: the accounts:update request of the revoke call succeeded.
C20_Witness ==
  /\ Responded /\ revokeCalls = 1 /\ gRevoke.state = "resolved"
  /\ tokenExchanges = 1 /\ adminRequests = 1

\* Destination of each recognized mode of the auth callback.
CallbackDestination ==
  [signIn |-> "/signup", resetPassword |-> "/reset-pass",
   verifyEmail |-> "/verify-email", recoverEmail |-> "/recover-email"]

\* C21: a request to /auth/action with mode signIn, resetPassword,
\* verifyEmail or recoverEmail is redirected to /signup, /reset-pass,
\* /verify-email or /recover-email with ?code= followed by the oobCode as
\* given ("null" when the parameter is missing); with any other or no mode
\* it passes through; no verifyIdToken call, key lookup, revoke call or
\* outbound request is made.
C21_AuthCallbackByMode ==
  (gPc # "idle" /\ gReq.pathname = "/auth/action") =>
    /\ Responded
    /\ verifyCalls = 0 /\ revokeCalls = 0
    /\ jwkLookups = 0 /\ sigVerifies = 0
    /\ tokenExchanges = 0 /\ adminRequests = 0
    /\ IF gReq.mode.t = "string" /\ gReq.mode.s \in DOMAIN CallbackDestination
         THEN RedirectsTo(CallbackDestination[gReq.mode.s] \o "?code="
                          \o (IF gReq.oobCode.t = "string" THEN gReq.oobCode.s
                              ELSE "null"))
         ELSE AllowsUnchanged

\* C21 witness: a password-reset callback carrying a Bearer token is
\* redirected to /reset-pass with its code.
C21_Witness ==
  /\ Responded /\ gReq.pathname = "/auth/action"
  /\ gReq.mode = Str("resetPassword") /\ gReq.oobCode = Str("abc")
  /\ gReq.authorization # Null
  /\ RedirectsTo("/reset-pass?code=abc")

(***************************************************************************)
(* Key cache                                                                *)
(***************************************************************************)
\* A lookup leaves #fetchGooglePublicKeys' entry in this step.
LookupStarts(c) == kPc[c] = "idle" /\ kPc'[c] # "idle"

\* The fetch of a lookup settles in this step.
LookupSettles(c) == kPc[c] = "fetching" /\ kPc'[c] # "fetching"

\* Lookups whose fetch is outstanding.
Fetching == {c \in Lookups : kPc[c] = "fetching"}

\* max-age a Cache-Control header of the responses announces: 1 second for
\* "public, max-age=1", the default hour for no header and for "max-age=x".
AnnouncedMaxAge(cacheControl) ==
  IF cacheControl = Str("public, max-age=1") THEN 1 ELSE 60 * 60

\* The response carries a 2xx status, one or more keys, and only keys that
\* are well formed and importable.
FullSuccess(resp) == resp.kind = "ok" /\ resp.bad = {} /\ resp.good # {}

\* C22 (as stated): while no cache entry exists, at most one fetch of the key
\* set is outstanding, however many lookups were issued.
C22_ConcurrentLookupsOneFetch ==
  ~jwkCache.present => Cardinality(Fetching) <= 1

\* C22 (amended): a lookup issued while no cache entry exists issues exactly
\* one fetch of its own, whether or not another lookup's fetch is
\* outstanding, and no lookup ever issues more than one fetch.
C22_EachLookupOneFetch ==
  [][\A c \in Lookups :
       /\ kFetches'[c] <= 1
       /\ (LookupStarts(c) /\ ~jwkCache.present)
            => (kPc'[c] = "fetching" /\ kFetches'[c] = 1)]_vars

\* Two lookups fetch at once and no cache entry exists.
C22_Witness ==
  /\ ~jwkCache.present
  /\ Fetching = Lookups
  /\ \A c \in Lookups : kFetches[c] = 1

\* C23: a lookup fetches if and only if no entry exists or now >= the cached
\* expiry; with now < expiry it returns the cached map, fetches nothing and
\* leaves the entry; a successful fetch installs an entry whose expiry is the
\* lookup's now plus the announced max-age (3600 when the header is absent or
\* unparseable).
C23_FetchIffMissOrExpired ==
  [][\A c \in Lookups :
       /\ LookupStarts(c) =>
            IF jwkCache.present /\ clock < jwkCache.expiry
              THEN /\ kPc'[c] = "returned"
                   /\ kKeys'[c] = jwkCache.keys
                   /\ kFetches'[c] = 0
                   /\ jwkCache' = jwkCache
              ELSE /\ kPc'[c] = "fetching"
                   /\ kFetches'[c] = 1
       /\ (LookupSettles(c) /\ kPc'[c] = "returned") =>
            /\ jwkCache'.present
            /\ jwkCache'.expiry = kNow[c] + AnnouncedMaxAge(kResp'[c].cacheControl)
            /\ kFetches'[c] = 1]_vars

\* The first lookup after the entry's expiry has fetched and installed an
\* entry with the default lifetime from a response with an unparseable header.
C23_Witness ==
  \E c \in Lookups :
    /\ kPc[c] = "returned"
    /\ kFetches[c] = 1
    /\ kResp[c].cacheControl = Str("max-age=x")
    /\ clock > 0
    /\ jwkCache.expiry = clock + 60 * 60

\* C24: the cache entry is replaced only as a whole and only by a fully
\* successful fetch; a lookup whose response is not 2xx, holds a malformed or
\* unimportable key, or holds no key fails and leaves the cache as it was.
C24_CacheReplacedOnlyOnSuccess ==
  [][\A c \in Lookups :
       /\ LookupSettles(c) =>
            IF FullSuccess(kResp'[c])
              THEN /\ kPc'[c] = "returned"
                   /\ jwkCache'.present
                   /\ jwkCache'.keys = kResp'[c].good
                   /\ kKeys'[c] = kResp'[c].good
              ELSE /\ kPc'[c] = "thrown"
                   /\ kCode'[c] # "none"
                   /\ jwkCache' = jwkCache
       /\ (\A d \in Lookups : ~LookupSettles(d)) => jwkCache' = jwkCache]_vars

\* A lookup failed on a response that held usable keys next to a bad one,
\* while an entry with other keys was cached.
C24_Witness ==
  \E c \in Lookups :
    /\ kPc[c] = "thrown"
    /\ kResp[c].kind = "ok"
    /\ kResp[c].good # {}
    /\ kResp[c].bad # {}
    /\ jwkCache.present
    /\ jwkCache.keys # kResp[c].good

(***************************************************************************)
(* Access-token cache                                                       *)
(***************************************************************************)
\* A call asks #fetchAccessToken for a token in this step.
TokenRequested(c) == aPc[c] = "idle" /\ aPc'[c] \notin {"idle", "thrown"}

\* The token exchange of a call settles in this step.
ExchangeSettles(c) == aPc[c] = "tokenExchange" /\ aPc'[c] # "tokenExchange"

\* C25: a token request made while the cached token is within its validity
\* window (now < expiry) issues no exchange and returns the cached token,
\* which the one exchange of an earlier request installed; no request issues
\* more than one exchange.
C25_OneExchangePerWindow ==
  [][\A c \in AdminCalls :
       /\ aExchanges'[c] <= 1
       /\ (TokenRequested(c) /\ accessTokenCache.present
             /\ clock < accessTokenCache.expiry)
            => /\ aPc'[c] = "post"
               /\ aExchanges'[c] = 0
               /\ aToken'[c].cached
               /\ aToken'[c].expiry = accessTokenCache.expiry
               /\ accessTokenCache' = accessTokenCache
       /\ (ExchangeSettles(c) /\ aPc'[c] = "post")
            => /\ aExchanges'[c] = 1
               /\ ~aToken'[c].cached
               /\ aToken'[c].expiry = accessTokenCache'.expiry]_vars

\* One call has resolved after its one exchange, and the other call, made
\* within the validity window, posts with the cached token and no exchange.
C25_Witness ==
  \E c, d \in AdminCalls :
    /\ aPc[c] = "resolved"
    /\ aExchanges[c] = 1
    /\ ~aToken[c].cached
    /\ aPc[d] = "post"
    /\ aExchanges[d] = 0
    /\ aToken[d].cached
    /\ aToken[d].expiry = aToken[c].expiry

\* C26: an exchange that succeeds caches expiry = its now + expires_in - 60;
\* a cached token is handed out only while now < expiry, so it is used with
\* no less than 60 seconds of validity left at the token endpoint; an
\* exchange that fails, and every other step, leaves the cache as it was.
C26_ExpiryBuffer ==
  [][\A c \in AdminCalls :
       /\ (ExchangeSettles(c) /\ aPc'[c] = "post")
            => accessTokenCache' =
                 [present |-> TRUE,
                  expiry |-> aNow[c] + aResp'[c].expires_in - 60]
       /\ (ExchangeSettles(c) /\ aPc'[c] = "thrown")
            => accessTokenCache' = accessTokenCache
       /\ (\A d \in AdminCalls : ~ExchangeSettles(d))
            => accessTokenCache' = accessTokenCache
       /\ (TokenRequested(c) /\ aPc'[c] = "post")
            => /\ aToken'[c].cached
               /\ clock < accessTokenCache.expiry
               /\ aToken'[c].validUntil - clock >= 60]_vars

\* A call posts with a cached token that the token endpoint honours for 61
\* more seconds, the least the buffer leaves.
C26_Witness ==
  \E c \in AdminCalls :
    /\ aPc[c] = "post"
    /\ aToken[c].cached
    /\ aToken[c].validUntil - clock = 61

(***************************************************************************)
(* Custom claims                                                            *)
(***************************************************************************)
\* Keys of a claims argument.
ClaimKeys(claims) ==
  IF claims = Null THEN {}
  ELSE {claims.props[i].key : i \in 1..Len(claims.props)}

\* The call made no network call: no token exchange, no accounts:update.
NoNetworkCall(c) == aExchanges[c] = 0 /\ aPosts[c] = 0

\* The call reached the network: it signs the assertion for, or has made, a
\* request.
ReachedNetwork(c) ==
  \/ aPc[c] \in {"signAssertion", "tokenExchange", "post", "resolved"}
  \/ aExchanges[c] > 0
  \/ aPosts[c] > 0

\* The call failed validation with the given code and made no network call.
Rejected(c, code) == aPc[c] = "thrown" /\ aCode[c] = code /\ NoNetworkCall(c)

\* C27 (as stated): a request is sent only for claims with no reserved key
\* and at most 1000 bytes; claims with a reserved key fail with
\* invalid-claims and claims of more than 1000 bytes fail with
\* claims-too-large, both without a network call.
C27_ClaimsValidated ==
  \A c \in AdminCalls :
    aPc[c] # "idle" =>
      /\ ReachedNetwork(c)
           => /\ ClaimKeys(aClaims[c]) \cap RESERVED_CLAIMS = {}
              /\ payloadSizeBytes(aClaims[c]) <= 1000
      /\ ClaimKeys(aClaims[c]) \cap RESERVED_CLAIMS # {}
           => Rejected(c, "invalid-claims")
      /\ payloadSizeBytes(aClaims[c]) > 1000
           => Rejected(c, "claims-too-large")

\* C27 (amended): as above, with claims-too-large for claims of more than
\* 1000 bytes that hold no reserved key; claims with a reserved key fail with
\* invalid-claims whatever their size.
C27_ClaimsValidatedKeysFirst ==
  \A c \in AdminCalls :
    aPc[c] # "idle" =>
      /\ ReachedNetwork(c)
           => /\ ClaimKeys(aClaims[c]) \cap RESERVED_CLAIMS = {}
              /\ payloadSizeBytes(aClaims[c]) <= 1000
      /\ ClaimKeys(aClaims[c]) \cap RESERVED_CLAIMS # {}
           => Rejected(c, "invalid-claims")
      /\ (payloadSizeBytes(aClaims[c]) > 1000
            /\ ClaimKeys(aClaims[c]) \cap RESERVED_CLAIMS = {})
           => Rejected(c, "claims-too-large")

\* One call was rejected for 506 characters that encode to 1001 bytes, the
\* other for a reserved key with a value over the limit.
C27_Witness ==
  \E c, d \in AdminCalls :
    /\ Rejected(c, "claims-too-large")
    /\ aClaims[c] = Obj(<<Prop("role", Repeat(233, 495))>>)
    /\ Rejected(d, "invalid-claims")
    /\ aClaims[d] = Obj(<<Prop("aud", Repeat(97, 1000))>>)

(***************************************************************************)
(* Connection proxy: results and idempotence                                *)
(***************************************************************************)
\* C28 (as stated): a non-null document returned by findOne holds no raw
\* ObjectId, and its _id is a string.
C28_NoRawObjectId ==
  \A c \in Calls :
    (callPc[c] = "done" /\ callResult[c] # NoDoc)
      => /\ callResult[c].id = "string"
         /\ callResult[c].ref # "ObjectId"

\* C29: once dbInstance is non-null, no step invokes client.connect() again
\* and dbInstance keeps its handle.
C29_ConnectedStaysConnected ==
  [][dbInstance # NoDb
       => /\ dbInstance' = dbInstance
          /\ connectCalls' = connectCalls]_vars

\* After the one connect attempt succeeded, a call that arrived later and a
\* call that arrived before both went on to query the same handle.
C29_Witness ==
  /\ dbInstance # NoDb
  /\ connectCalls = 1
  /\ \E c, d \in Calls :
       /\ callEpoch[c] = 1
       /\ callStarted[c] = NoPromise
       /\ callPc[c] \in {"querying", "done"}
       /\ queryDb[c] = dbInstance
       /\ callEpoch[d] = 0
       /\ callStarted[d] = NoPromise
       /\ callPc[d] \in {"querying", "done"}
       /\ queryDb[d] = dbInstance

(***************************************************************************)
(* Token verifier: structural and claims failures make no outbound call     *)
(***************************************************************************)
\* Codes of the format, algorithm, kid, audience, issuer, subject,
\* auth_time, iat and exp stages.
StructuralCodes ==
  {"invalid-argument", "invalid-id-token", "invalid-algorithm", "missing-kid",
   "invalid-audience", "invalid-issuer", "invalid-subject", "missing-auth-time",
   "missing-iat", "iat-in-future", "missing-expiration", "token-expired"}

\* C30: a verifyIdToken call that fails with the code of a structural or
\* claims stage fails in its first step, having fetched no key set, made no
\* token exchange and no Admin API request, and leaves both caches as they
\* were.
C30_StructuralFailureNoOutboundCall ==
  [][(vPc # "thrown" /\ vPc' = "thrown" /\ vCode' \in StructuralCodes)
       => /\ vPc = "idle"
          /\ jwkFetches' = 0
          /\ tokenExchanges' = 0
          /\ adminRequests' = 0
          /\ jwkCache' = jwkCache
          /\ accessTokenCache' = accessTokenCache]_vars

\* An expired token was rejected while both caches held entries, with no
\* outbound call.
C30_Witness ==
  /\ vPc = "thrown"
  /\ vCode = "token-expired"
  /\ jwkCache.present
  /\ accessTokenCache.present
  /\ jwkFetches = 0
  /\ tokenExchanges = 0
  /\ adminRequests = 0

(***************************************************************************)
(* Token verifier: boundaries of the time checks                            *)
(***************************************************************************)
\* The call reached the comparison of the named stage: the token decodes and
\* violates no earlier stage.
Reaches(stage) == vPc # "idle" /\ vToken.fmt = "ok" /\ NoStageViolatedBefore(stage)

\* C31: at the issued-at comparison iat = now + 300 passes and iat = now + 301
\* fails with iat-in-future; at the expiry comparison exp = now fails with
\* token-expired and exp = now + 1 passes, so that the call goes on to the
\* key lookup.
C31_TimeBoundaries ==
  /\ Reaches("iat-future") =>
       /\ vToken.iat.n = vNow + 300 => vCode # "iat-in-future"
       /\ vToken.iat.n = vNow + 301 => vPc = "thrown" /\ vCode = "iat-in-future"
  /\ Reaches("expired") =>
       /\ vToken.exp.n = vNow => vPc = "thrown" /\ vCode = "token-expired"
       /\ vToken.exp.n = vNow + 1 =>
            /\ vCode # "token-expired"
            /\ jwkLookups = 1
            /\ vPc = "thrown" => StageIndex(StageOfCode(vCode)) >= StageIndex("key-lookup")

\* A token with iat = now + 300 and exp = now + 1 went on to the key lookup.
C31_Witness ==
  /\ Reaches("expired")
  /\ vToken.iat.n = vNow + 300
  /\ vToken.exp.n = vNow + 1
  /\ jwkLookups = 1

(***************************************************************************)
(* Token verifier: auth_time and revocation checking                        *)
(***************************************************************************)
\* The token of the call lacks a numeric auth_time.
LacksAuthTime == vToken.fmt = "ok" /\ vToken.auth_time.t # "number"

\* C32: with checkRevoked = true a token without a numeric auth_time that
\* reaches the auth_time check fails with missing-auth-time, whatever its iat
\* and exp, and without a key lookup, token exchange or Admin API request;
\* with checkRevoked = false no token fails with missing-auth-time and the
\* call makes no token exchange, no Admin API request and no user lookup.
C32_AuthTimeOnlyForRevocation ==
  /\ (Reaches("auth_time") /\ vCheckRevoked /\ LacksAuthTime)
       => /\ vPc = "thrown" /\ vCode = "missing-auth-time"
          /\ jwkLookups = 0 /\ jwkFetches = 0
          /\ tokenExchanges = 0 /\ adminRequests = 0
  /\ (vPc # "idle" /\ ~vCheckRevoked)
       => /\ vCode # "missing-auth-time"
          /\ tokenExchanges = 0 /\ adminRequests = 0 /\ ~vUser.got

\* With checkRevoked = true a token without auth_time that has also expired
\* fails with missing-auth-time.
C32_Witness ==
  /\ vPc = "thrown" /\ vCheckRevoked /\ LacksAuthTime
  /\ vCode = "missing-auth-time"
  /\ vToken.exp.t = "number" /\ vToken.exp.n <= vNow

(***************************************************************************)
(* User update: deletion and assignment                                     *)
(***************************************************************************)
\* The attributes updateUser can delete: property of the argument, field of
\* the request, tag of deleteAttribute.
Attributes ==
  {<<"displayName", "displayName", "DISPLAY_NAME">>,
   <<"phoneNumber", "phoneNumber", "PHONE_NUMBER">>,
   <<"photoURL", "photoUrl", "PHOTO_URL">>}

\* Tags named in deleteAttribute of the request built.
TagsSent ==
  IF "deleteAttribute" \in DOMAIN uPayload.body
    THEN {uPayload.body.deleteAttribute[i] :
            i \in 1..Len(uPayload.body.deleteAttribute)}
    ELSE {}

\* The call made no network call.
UpdateNoNetworkCall == uExchanges = 0 /\ uPosts = 0

\* The argument names nothing to set and nothing to delete.
NothingRequested == \A f \in DOMAIN uProperties : uProperties[f] = Undef

\* C33: in the request updateUser builds, a null displayName, phoneNumber or
\* photoURL puts its tag in deleteAttribute and leaves its field out, a
\* non-null value sets the field to it and adds no tag, and no attribute is
\* both a field and a tag; a call that names nothing to set or delete fails
\* with invalid-argument and without a network call, and only such a call.
C33_DeleteAndSetDisjoint ==
  uPayload.built =>
    /\ \A a \in Attributes :
         LET value == uProperties[a[1]]
             isField == a[2] \in DOMAIN uPayload.body
             isTag == a[3] \in TagsSent
         IN /\ value = Null => isTag /\ ~isField
            /\ value \notin {Null, Undef} =>
                 isField /\ uPayload.body[a[2]] = value /\ ~isTag
            /\ value = Undef => ~isField /\ ~isTag
            /\ ~(isField /\ isTag)
    /\ NothingRequested =>
         uPc = "thrown" /\ uCode = "invalid-argument" /\ UpdateNoNetworkCall
    /\ uCode = "invalid-argument" => NothingRequested

\* A request was posted that deletes the display name and the photo and sets
\* the phone number.
C33_Witness ==
  /\ uPc = "post"
  /\ uProperties.displayName = Null
  /\ uProperties.photoURL = Null
  /\ uProperties.phoneNumber = Str("+1555")
  /\ TagsSent = {"DISPLAY_NAME", "PHOTO_URL"}
  /\ DOMAIN uPayload.body = {"localId", "phoneNumber", "deleteAttribute"}


\* The class the gate put the credentials of the answered request in.
GateVerdict == Verdict(gReq.pathname, gDecoded, gError)

\* The answered request came from following a redirect of the gate, and
\* the gate classed the credentials the same way at every step of the chain
\* at which it read them.
FollowedWithFixedCredentials ==
  /\ gPc = "responded"
  /\ gChain # <<>>
  /\ \A i \in DOMAIN gChain : gChain[i] \in {"none", GateVerdict}

\* C34 as stated: for fixed credentials, the request re-submitted to the
\* location the gate redirected to is allowed, so that every chain of gate
\* redirects has length at most one.
C34_RedirectChainAtMostOne ==
  FollowedWithFixedCredentials => gResp.kind = "next"

\* C34 amended: for fixed credentials the gate produces no redirect loop.
\* The request re-submitted to the location the gate redirected to is
\* allowed, with one exception: a redirect of the auth callback route, which
\* is issued before the credentials are read, leads a client holding a valid
\* verified token to an auth-flow page, from which the gate redirects once
\* more, to "/", where the request is allowed.  Every chain of gate
\* redirects has length at most two.
C34_NoRedirectLoop ==
  FollowedWithFixedCredentials =>
    \/ gResp.kind = "next"
    \/ /\ gChain = <<"none">>
       /\ GateVerdict = "verified"
       /\ gResp = redirect("/")

\* A client with a valid verified token followed the redirect of the auth
\* callback route and then the redirect to "/", and was allowed there.
C34_Witness ==
  /\ FollowedWithFixedCredentials
  /\ gChain = <<"none", "verified">>
  /\ gReq.pathname = "/"
  /\ gResp.kind = "next"

\* Call c is suspended on a connect attempt that has failed.
AwaitsFailedAttempt(c) ==
  /\ callPc[c] \in {"awaitOwn", "awaitExisting"}
  /\ attemptState[callWaitsOn[c]] = "rejected"

\* Calls that awaited attempt a and have failed with its error.
FailedOn(a) ==
  {c \in Calls : /\ callWaitsOn[c] = a
                 /\ callPc[c] = "failed"
                 /\ callError[c] = "connect-error"}

QueryIssued(c) ==
  callPc[c] \in {"querying", "done"} \/ callError[c] = "driver-error"

\* Call c has left ensureConnected and the attempt it awaited had failed.
LeftFailedAttempt(c) ==
  /\ callWaitsOn[c] # NoPromise
  /\ attemptState[callWaitsOn[c]] = "rejected"
  /\ callPc[c] \notin {"awaitOwn", "awaitExisting"}

\* C36: findOne invokes collection.findOne only on a non-null dbInstance,
\* the handle of a connect attempt that succeeded; a call whose connect
\* attempt failed propagates the connect error and issues no query.
C36_QueryOnlyWhenConnected ==
  \A c \in Calls :
    /\ QueryIssued(c) =>
         /\ queryDb[c] # NoDb
         /\ attemptState[queryDb[c]] = "resolved"
    /\ LeftFailedAttempt(c) =>
         /\ callPc[c] = "failed"
         /\ callError[c] = "connect-error"
         /\ ~QueryIssued(c)
         /\ queryDb[c] = NoDb
         /\ callRaw[c] = NoDoc

\* One call failed with the connect error of its attempt while a later
\* call, connected by a retry, has its query in flight.
C36_Witness ==
  \E c, d \in Calls :
    /\ LeftFailedAttempt(c)
    /\ callError[c] = "connect-error"
    /\ callPc[d] = "querying"
    /\ queryDb[d] = dbInstance
    /\ dbInstance # NoDb

\* Signed tokens whose only defect is an email_verified claim that is not
\* true, expiring at 2 or at 1.
UnverifiedEmailTokens ==
  {[t EXCEPT !.email_verified = v] :
     t \in {NominalToken, [NominalToken EXCEPT !.exp = Num(1)]},
     v \in UnverifiedEmailValues}

\* The answered request carries such a token, still unexpired, on an
\* isolate whose Firebase Admin is initialized, and the key set was there
\* for every verification made.
CarriesUnexpiredUnverified ==
  /\ Responded
  /\ gReq.authorization \in Bearer(UnverifiedEmailTokens)
  /\ gReq.authorization.tok.exp.n > clock
  /\ ~gInitError
  /\ verifyCalls = 1 => vKeys.got

\* C37 as stated: every non-excluded request carrying an unexpired token
\* with unverified email verifies successfully and triggers one
\* revokeRefreshTokens call.
C37_EveryNonExcludedRequestRevokes ==
  (CarriesUnexpiredUnverified /\ gReq.pathname \notin ExcludedPaths) =>
    /\ TokenVerified
    /\ revokeCalls = 1

\* C37 amended: the gate never checks revocation, so the revocations it
\* issued do not change its decisions.  Every request that is neither
\* excluded nor the auth callback and carries an unexpired token with
\* unverified email verifies successfully and triggers exactly one
\* revokeRefreshTokens call, also when the user's tokens were revoked by an
\* earlier request; once the token's exp has passed verification fails with
\* token-expired and no revoke call is made.  A request to the auth callback
\* route verifies nothing and revokes nothing.
C37_RevocationDoesNotChangeDecisions ==
  /\ verifyCalls = 1 => ~vCheckRevoked /\ vUser = NoLookup
  /\ vCode # "id-token-revoked"
  /\ (CarriesUnexpiredUnverified /\ Gated) =>
       /\ TokenVerified
       /\ revokeCalls = 1
       /\ RevokeSettled
  /\ (Responded /\ gReq.pathname = "/auth/action") =>
       verifyCalls = 0 /\ revokeCalls = 0
  /\ (/\ Responded /\ Gated /\ verifyCalls = 1
      /\ gReq.authorization \in Bearer(UnverifiedEmailTokens)
      /\ gReq.authorization.tok.exp.n <= vNow) =>
       /\ vPc = "thrown" /\ vCode = "token-expired"
       /\ revokeCalls = 0

\* A client whose request was classed unverified, with a revoke call the
\* Admin API accepted, followed the redirect to /login with the same token:
\* the token verified again and a second revoke call was made.
C37_Witness ==
  /\ CarriesUnexpiredUnverified /\ Gated
  /\ gChain = <<"unverified">>
  /\ gReq.pathname = "/login"
  /\ TokenVerified /\ revokeCalls = 1
  /\ gRevoke.uid \in revokedUsers
  /\ gRevoke.state = "rejected"

\* Initialization of Firebase Admin failed for the request in flight.
InitFailed == gPc # "idle" /\ gInitError

\* What the gate does with a request for which initialization failed.
FailsClosed ==
  /\ Responded
  /\ Gated
  /\ ~firebaseAdmin
  /\ verifyCalls = 0 /\ revokeCalls = 0
  /\ jwkLookups = 0 /\ sigVerifies = 0
  /\ tokenExchanges = 0 /\ adminRequests = 0
  /\ gDecoded = NoPayload
  /\ gResp.xuid = Undef /\ gResp.xiat = Undef
  /\ IF StartsWith(gReq.pathname, "/api")
       THEN gResp.kind = "json" /\ gResp.status = 500
     ELSE IF gReq.pathname \in AuthFlowPages \cup {"/try"}
       THEN AllowsUnchanged
     ELSE RedirectsTo("/login")

\* C38: when initialization of Firebase Admin fails the gate fails closed:
\* an API request is answered with the 500 JSON error, a page request is
\* allowed on the unauthenticated allow-list and redirected to /login
\* elsewhere, no token is verified, no revoke call is made and no identity
\* header is set; firebaseAdmin stays unset, and every request that reaches
\* the initialization with firebaseAdmin unset attempts it again.
C38_InitFailureFailsClosed ==
  [][/\ InitFailed' => FailsClosed'
     /\ (gPc = "idle" /\ gPc' # "idle" /\ Gated' /\ ~firebaseAdmin) =>
          (firebaseAdmin' <=> ~gInitError')]_vars

\* Initialization failed for a page request that carries a valid verified
\* token: it is redirected to /login and the token is not verified.
C38_Witness ==
  /\ InitFailed /\ Responded
  /\ gReq.pathname = "/dashboard"
  /\ gReq.authorization \in Bearer({NominalToken})
  /\ RedirectsTo("/login")
  /\ verifyCalls = 0
====
